---- MODULE Spec2Model ----
(***************************************************************************)
(* Binary FBX decoder and geometry reconstruction of the Quixel plugin.    *)
(*                                                                         *)
(* The module holds one state machine per component:                       *)
(*   - the Geometry Reconstructor (FBXGeometry._genBuffers / _genFace),    *)
(*     specification SpecGeo;                                              *)
(*   - FBXStream.readInt64, specification SpecInt64;                       *)
(*   - FBXLoader.IsValidFBX and its caller, specification SpecMagic;       *)
(*   - FBXLoader.parse over a binary file, specifications SpecLoader and   *)
(*     SpecLoaderLive (the same with fairness of the parse);               *)
(*   - the byte cursor of FBXStream, specification SpecStream;             *)
(*   - FBXGeometry.parse / _recursivelyParse, specification SpecDiscover;  *)
(*   - QuixelListener.importAssets and its queue, specification SpecImport;*)
(*   - two FBXLoader objects on equal buffers, specification SpecPair;     *)
(*   - the typed reads of FBXStream, specification SpecRead;               *)
(*   - the socket handlers of QuixelServer, specification SpecServer.      *)
(* A specification leaves the variables of the other components at their   *)
(* idle values.                                                            *)
(* JavaScript arrays are 0-based; the sequences of this module are 1-based *)
(* and every array access goes through At, which adds the one.             *)
(***************************************************************************)
EXTENDS Integers, Sequences, FiniteSets, TLC

(* JavaScript's undefined, kept apart from every number the inputs hold. *)
Undef == 0 - 1

(* a[i] of a JavaScript array: undefined outside 0 .. length-1. *)
At(a, i) == IF i >= 0 /\ i < Len(a) THEN a[i + 1] ELSE Undef

(* `x ?? d`. *)
Coalesce(x, d) == IF x = Undef THEN d ELSE x

(***************************************************************************)
(* Geometry Reconstructor: inputs.                                         *)
(***************************************************************************)

(* The longest PolygonVertexIndex array the model feeds to _genBuffers. *)
MaxCorners == 5

(* Entries of PolygonVertexIndex: corners 0, 1, 3 and the terminators -3   *)
(* (corner 2) and -1 (corner 0).                                           *)
CornerValues == {0, 1, 3, 0 - 3, 0 - 1}

(* Vertices.a: four control points, every component distinct. *)
VertexPositions == [j \in 1..12 |-> 99 + j]

(* Normals.a, UV.a, Colors.a: four vectors each, every component distinct. *)
NormalsBuffer == [j \in 1..12 |-> 199 + j]
UVBuffer == [j \in 1..8 |-> 299 + j]
ColorsBuffer == [j \in 1..16 |-> 399 + j]

(* NormalIndex.a / UVIndex.a / ColorIndex.a: a permutation of the vectors. *)
IndexBuffer == <<2, 0, 3, 1>>

MappingTypes == {"ByPolygonVertex", "ByPolygon", "ByVertice", "AllSame", "Unknown"}
ReferenceTypes == {"Direct", "IndexToDirect", "Unknown"}

(* Which attribute blocks the geometry node carries. *)
PresentSets == {{}, {"uv"}, {"normal", "uv", "colors"}}

VARIABLES
    geoNode,                \* the keys of the node given to _genGeomeetry
    genGeometry,            \* the IFBXGeometry returned, << >> before the return
    geoInfo,                \* IFBXGeometryInformations (vertexIndices apart)
    vertexIndices,          \* geoInfo.vertexIndices, the entries visited so far
    buffers,                \* IFBXBuffers
    polygonIndex,
    faceLength,
    faceUVs,
    faceColors,
    faceNormals,
    facePositionIndexes,
    gpc,                    \* "loop" inside forEach, "returned" after it
    \* FBXStream.readInt64
    low,                    \* the word at _pos, read first
    high,                   \* the word at _pos + 4
    int64,                  \* the value returned
    ipc,                    \* "call" before readInt64, "returned" after it
    \* FBXLoader.IsValidFBX, called by QuixelListener._createMeshes
    content,                \* the bytes of the file
    isValid,                \* what IsValidFBX returned
    mpc,                    \* "read", "tested", "skipped" or "loading"
    \* FBXLoader
    profile,                \* the family of files the loader is given
    size,                   \* _stream.size
    version,                \* FBXLoader.version
    pos,                    \* _stream._pos
    stack,                  \* the activations of _parseNode, innermost last
    nodes,                  \* `nodes` of parse()
    lpc,                    \* "parsing", "returned" or "thrown"
    result,                 \* what parse() returned: "none", "null", "geometries"
    error,                  \* the error parse() raised, "" when none
    unsupported,            \* the unsupported type tag read, if any, and where
    \* FBXGeometry.parse / _recursivelyParse
    nodeObjects,                \* the node nodeObjects reachable from options.geometry
    connections,            \* options.connections
    calls,                  \* the activations of _recursivelyParse, innermost last
    geometries,             \* `geometries`: the node of each record pushed
    dpc,                    \* "start", "running" or "returned"
    \* QuixelListener.importAssets
    queue,                  \* this._queue
    imports,                \* the calls of importAssets: position, arguments
    lods,                   \* what _createMeshes did with each LOD file
    \* two FBXLoader objects on buffers of equal content
    active,                 \* the loader whose code runs: 1 or 2
    other,                  \* the fields of the loader whose code does not run
    drawn,                  \* the fields of the buffers read so far, by offset
    \* FBXStream: its reads
    streamSize,             \* this._buffer.byteLength
    streamPos,              \* this._pos
    lastRead,               \* the last read: its name, offset, inputs and result
    \* QuixelServer
    serverBuffer,           \* QuixelServer._Buffer: << >> for null, else <<the bytes>>
    sockets,                \* the connections: state and chunks received
    parses                  \* the texts handed to JSON.parse, in order

geoVars == <<geoNode, genGeometry, geoInfo, vertexIndices, buffers, polygonIndex,
             faceLength, faceUVs,
             faceColors, faceNormals, facePositionIndexes, gpc>>

int64Vars == <<low, high, int64, ipc>>

magicVars == <<content, isValid, mpc>>

loaderVars == <<profile, size, version, pos, stack, nodes, lpc, result, error,
                unsupported>>

discoverVars == <<nodeObjects, connections, calls, geometries, dpc>>

importVars == <<queue, imports, lods>>

pairVars == <<active, other, drawn>>

readVars == <<streamSize, streamPos, lastRead>>

serverVars == <<serverBuffer, sockets, parses>>

vars == <<geoVars, int64Vars, magicVars, loaderVars, discoverVars, importVars,
          pairVars,
          readVars,
          serverVars>>

(***************************************************************************)
(* FBXGeometry._parseNormals / _parseUVs / _parseColors: the parsed block. *)
(* A Nullable<IFBXParsedData> is << >> (null) or a one-element sequence.   *)
(***************************************************************************)
ParsedData(dataSize, buffer, mappingType, referenceType) ==
    <<[dataSize |-> dataSize,
       buffer |-> buffer,
       indices |-> IF referenceType = "IndexToDirect" THEN IndexBuffer ELSE << >>,
       mappingType |-> mappingType,
       referenceType |-> referenceType]>>

(* FBXGeometry._slice *)
RECURSIVE Slice(_, _, _)
Slice(b, from, to) ==
    IF from < to THEN <<At(b, from)>> \o Slice(b, from + 1, to) ELSE << >>

(* FBXGeometry._getData.  An undefined index makes `from` NaN, the loop of *)
(* _slice runs no iteration and the result is the empty array.             *)
(* GetData with "ByPolygon" falling through to the position of the entry. *)
GetData_ByPolygonAsEntry(polygonVertexIndex, polygonIndex_, vertexIndex, infoObject) ==
    LET base == CASE infoObject.mappingType = "ByPolygonVertex" -> polygonVertexIndex
                  [] infoObject.mappingType = "ByPolygon" -> polygonVertexIndex
                  [] infoObject.mappingType = "ByVertice" -> vertexIndex
                  [] infoObject.mappingType = "AllSame" -> At(infoObject.indices, 0)
                  [] OTHER -> polygonVertexIndex
        index == IF infoObject.referenceType = "IndexToDirect"
                 THEN At(infoObject.indices, base)
                 ELSE base
        from == index * infoObject.dataSize
        to == from + infoObject.dataSize
    IN  IF index = Undef THEN << >> ELSE Slice(infoObject.buffer, from, to)

(* GetData leaving out the indirection of "IndexToDirect". *)
GetData_NoIndirection(polygonVertexIndex, polygonIndex_, vertexIndex, infoObject) ==
    LET base == CASE infoObject.mappingType = "ByPolygonVertex" -> polygonVertexIndex
                  [] infoObject.mappingType = "ByPolygon" -> polygonIndex_
                  [] infoObject.mappingType = "ByVertice" -> vertexIndex
                  [] infoObject.mappingType = "AllSame" -> At(infoObject.indices, 0)
                  [] OTHER -> polygonVertexIndex
        index == base
        from == index * infoObject.dataSize
        to == from + infoObject.dataSize
    IN  IF index = Undef THEN << >> ELSE Slice(infoObject.buffer, from, to)

(* GetData with no index for a mapping type that is none of the four. *)
GetData_UnknownMappingUndefined(polygonVertexIndex, polygonIndex_, vertexIndex, infoObject) ==
    LET base == CASE infoObject.mappingType = "ByPolygonVertex" -> polygonVertexIndex
                  [] infoObject.mappingType = "ByPolygon" -> polygonIndex_
                  [] infoObject.mappingType = "ByVertice" -> vertexIndex
                  [] infoObject.mappingType = "AllSame" -> At(infoObject.indices, 0)
                  [] OTHER -> Undef
        index == IF infoObject.referenceType = "IndexToDirect"
                 THEN At(infoObject.indices, base)
                 ELSE base
        from == index * infoObject.dataSize
        to == from + infoObject.dataSize
    IN  IF index = Undef THEN << >> ELSE Slice(infoObject.buffer, from, to)

GetData(polygonVertexIndex, polygonIndex_, vertexIndex, infoObject) ==
    LET base == CASE infoObject.mappingType = "ByPolygonVertex" -> polygonVertexIndex
                  [] infoObject.mappingType = "ByPolygon" -> polygonIndex_
                  [] infoObject.mappingType = "ByVertice" -> vertexIndex
                  [] infoObject.mappingType = "AllSame" -> At(infoObject.indices, 0)
                  [] OTHER -> polygonVertexIndex
        index == IF infoObject.referenceType = "IndexToDirect"
                 THEN At(infoObject.indices, base)
                 ELSE base
        from == index * infoObject.dataSize
        to == from + infoObject.dataSize
    IN  IF index = Undef THEN << >> ELSE Slice(infoObject.buffer, from, to)

(***************************************************************************)
(* FBXGeometry._genFace: one iteration of its loop, then the loop.         *)
(***************************************************************************)
(* GenFaceTriangle emitting the corners as 0, i, i-1. *)
GenFaceTriangle_SwappedCorners(b, info, fpi, fn, fuv, fc, i) ==
    LET P(k) == At(info.vertexPositions, At(fpi, k))
    IN  [b EXCEPT !.vertex = @ \o
            <<P(0), P(2), P(1),
              P(i * 3), P(i * 3 + 2), P(i * 3 + 1),
              P((i - 1) * 3), P((i - 1) * 3 + 2), P((i - 1) * 3 + 1)>>,
         !.index = @ \o <<Len(b.index), Len(b.index) + 1, Len(b.index) + 2>>,
         !.colors = IF info.colors # << >>
            THEN @ \o <<At(fc, 0), At(fc, 1), At(fc, 2), At(fc, 3),
                        At(fc, (i - 1) * 3), At(fc, (i - 1) * 3 + 1),
                        At(fc, (i - 1) * 3 + 2), At(fc, (i - 1) * 3 + 3),
                        At(fc, i * 3), At(fc, i * 3 + 1), At(fc, i * 3 + 2),
                        At(fc, i * 3 + 3)>>
            ELSE @,
         !.normal = IF info.normal # << >>
            THEN @ \o <<At(fn, 0), At(fn, 2), At(fn, 1),
                        At(fn, (i - 1) * 3), At(fn, (i - 1) * 3 + 2), At(fn, (i - 1) * 3 + 1),
                        At(fn, i * 3), At(fn, i * 3 + 2), At(fn, i * 3 + 1)>>
            ELSE @,
         !.uvs = IF info.uv # << >>
            THEN @ \o <<At(fuv, 0), At(fuv, 1),
                        At(fuv, (i - 1) * 2), At(fuv, (i - 1) * 2 + 1),
                        At(fuv, i * 2), At(fuv, i * 2 + 1)>>
            ELSE @]

(* GenFaceTriangle pushing the colour of a vertex as three components. *)
GenFaceTriangle_ThreeColorComponents(b, info, fpi, fn, fuv, fc, i) ==
    LET P(k) == At(info.vertexPositions, At(fpi, k))
    IN  [b EXCEPT !.vertex = @ \o
            <<P(0), P(2), P(1),
              P((i - 1) * 3), P((i - 1) * 3 + 2), P((i - 1) * 3 + 1),
              P(i * 3), P(i * 3 + 2), P(i * 3 + 1)>>,
         !.index = @ \o <<Len(b.index), Len(b.index) + 1, Len(b.index) + 2>>,
         !.colors = IF info.colors # << >>
            THEN @ \o <<At(fc, 0), At(fc, 1), At(fc, 2),
                        At(fc, (i - 1) * 3), At(fc, (i - 1) * 3 + 1),
                        At(fc, (i - 1) * 3 + 2),
                        At(fc, i * 3), At(fc, i * 3 + 1), At(fc, i * 3 + 2)>>
            ELSE @,
         !.normal = IF info.normal # << >>
            THEN @ \o <<At(fn, 0), At(fn, 2), At(fn, 1),
                        At(fn, (i - 1) * 3), At(fn, (i - 1) * 3 + 2), At(fn, (i - 1) * 3 + 1),
                        At(fn, i * 3), At(fn, i * 3 + 2), At(fn, i * 3 + 1)>>
            ELSE @,
         !.uvs = IF info.uv # << >>
            THEN @ \o <<At(fuv, 0), At(fuv, 1),
                        At(fuv, (i - 1) * 2), At(fuv, (i - 1) * 2 + 1),
                        At(fuv, i * 2), At(fuv, i * 2 + 1)>>
            ELSE @]

(* GenFaceTriangle reading buffers.index.length once for the three pushes. *)
GenFaceTriangle_StaleIndexLength(b, info, fpi, fn, fuv, fc, i) ==
    LET P(k) == At(info.vertexPositions, At(fpi, k))
    IN  [b EXCEPT !.vertex = @ \o
            <<P(0), P(2), P(1),
              P((i - 1) * 3), P((i - 1) * 3 + 2), P((i - 1) * 3 + 1),
              P(i * 3), P(i * 3 + 2), P(i * 3 + 1)>>,
         !.index = @ \o <<Len(b.index), Len(b.index), Len(b.index)>>,
         !.colors = IF info.colors # << >>
            THEN @ \o <<At(fc, 0), At(fc, 1), At(fc, 2), At(fc, 3),
                        At(fc, (i - 1) * 3), At(fc, (i - 1) * 3 + 1),
                        At(fc, (i - 1) * 3 + 2), At(fc, (i - 1) * 3 + 3),
                        At(fc, i * 3), At(fc, i * 3 + 1), At(fc, i * 3 + 2),
                        At(fc, i * 3 + 3)>>
            ELSE @,
         !.normal = IF info.normal # << >>
            THEN @ \o <<At(fn, 0), At(fn, 2), At(fn, 1),
                        At(fn, (i - 1) * 3), At(fn, (i - 1) * 3 + 2), At(fn, (i - 1) * 3 + 1),
                        At(fn, i * 3), At(fn, i * 3 + 2), At(fn, i * 3 + 1)>>
            ELSE @,
         !.uvs = IF info.uv # << >>
            THEN @ \o <<At(fuv, 0), At(fuv, 1),
                        At(fuv, (i - 1) * 2), At(fuv, (i - 1) * 2 + 1),
                        At(fuv, i * 2), At(fuv, i * 2 + 1)>>
            ELSE @]

GenFaceTriangle(b, info, fpi, fn, fuv, fc, i) ==
    LET P(k) == At(info.vertexPositions, At(fpi, k))
    IN  [vertex |-> b.vertex \o
            <<P(0), P(2), P(1),
              P((i - 1) * 3), P((i - 1) * 3 + 2), P((i - 1) * 3 + 1),
              P(i * 3), P(i * 3 + 2), P(i * 3 + 1)>>,
         colors |-> IF info.colors # << >>
            THEN b.colors \o
                 <<At(fc, 0), At(fc, 1), At(fc, 2), At(fc, 3),
                   At(fc, (i - 1) * 3), At(fc, (i - 1) * 3 + 1),
                   At(fc, (i - 1) * 3 + 2), At(fc, (i - 1) * 3 + 3),
                   At(fc, i * 3), At(fc, i * 3 + 1), At(fc, i * 3 + 2), At(fc, i * 3 + 3)>>
            ELSE b.colors,
         index |-> b.index \o <<Len(b.index), Len(b.index) + 1, Len(b.index) + 2>>,
         normal |-> IF info.normal # << >>
            THEN b.normal \o
                 <<At(fn, 0), At(fn, 2), At(fn, 1),
                   At(fn, (i - 1) * 3), At(fn, (i - 1) * 3 + 2), At(fn, (i - 1) * 3 + 1),
                   At(fn, i * 3), At(fn, i * 3 + 2), At(fn, i * 3 + 1)>>
            ELSE b.normal,
         uvs |-> IF info.uv # << >>
            THEN b.uvs \o
                 <<At(fuv, 0), At(fuv, 1),
                   At(fuv, (i - 1) * 2), At(fuv, (i - 1) * 2 + 1),
                   At(fuv, i * 2), At(fuv, i * 2 + 1)>>
            ELSE b.uvs]

RECURSIVE GenFaceLoop(_, _, _, _, _, _, _, _)
GenFaceLoop(b, info, fpi, fn, fuv, fc, len, i) ==
    IF i < len
    THEN GenFaceLoop(GenFaceTriangle(b, info, fpi, fn, fuv, fc, i),
                     info, fpi, fn, fuv, fc, len, i + 1)
    ELSE b

(* The loop started at i = 1: a face of two corners emits a triangle. *)
GenFace_FromSecondCorner(b, info, fpi, fn, fuv, fc, len) ==
    GenFaceLoop(b, info, fpi, fn, fuv, fc, len, 1)

GenFace(b, info, fpi, fn, fuv, fc, len) ==
    GenFaceLoop(b, info, fpi, fn, fuv, fc, len, 2)

(***************************************************************************)
(* FBXGeometry._genBuffers.                                                *)
(***************************************************************************)

(* `vertexIndex ^ -1` on a negative entry. *)
DecodeVertexIndex(v) == IF v < 0 THEN (0 - v) - 1 ELSE v

(* The state at the top of _genBuffers, for a geometry node carrying the   *)
(* blocks of `present`, all with the same mapping and reference type.      *)
GeoStart ==
    /\ \E present \in PresentSets, m \in MappingTypes, r \in ReferenceTypes,
          indexed \in BOOLEAN :
          /\ present = {} => (m = "ByPolygonVertex" /\ r = "Direct")
          /\ geoNode = {"Vertices"}
                        \cup (IF indexed THEN {"PolygonVertexIndex"} ELSE {})
                        \cup (IF "normal" \in present THEN {"LayerElementNormal"} ELSE {})
                        \cup (IF "uv" \in present THEN {"LayerElementUV"} ELSE {})
                        \cup (IF "colors" \in present THEN {"LayerElementColor"} ELSE {})
          /\ geoInfo =
                [vertexPositions |-> VertexPositions,
                 normal |-> IF "normal" \in present
                            THEN ParsedData(3, NormalsBuffer, m, r) ELSE << >>,
                 uv |-> IF "uv" \in present
                        THEN ParsedData(2, UVBuffer, m, r) ELSE << >>,
                 colors |-> IF "colors" \in present
                            THEN ParsedData(4, ColorsBuffer, m, r) ELSE << >>]
    /\ genGeometry = << >>
    /\ vertexIndices = << >>
    /\ buffers = [uvs |-> << >>, index |-> << >>, vertex |-> << >>,
                  colors |-> << >>, normal |-> << >>]
    /\ polygonIndex = 0
    /\ faceLength = 0
    /\ faceUVs = << >>
    /\ faceColors = << >>
    /\ faceNormals = << >>
    /\ facePositionIndexes = << >>
    /\ gpc = "loop"

(* One call of the forEach callback, on the next entry of the array.  The  *)
(* array is visited once, left to right, so its entries are drawn as they  *)
(* are visited.                                                            *)
GenBuffersVisit(entry) ==
    /\ gpc = "loop"
    /\ "PolygonVertexIndex" \in geoNode
    /\ Len(vertexIndices) < MaxCorners
    /\ LET polygonVertexIndex == Len(vertexIndices)
           endOfFace == entry < 0
           vertexIndex == DecodeVertexIndex(entry)
           fpi == facePositionIndexes \o
                    <<vertexIndex * 3, vertexIndex * 3 + 1, vertexIndex * 3 + 2>>
           fn == IF geoInfo.normal # << >>
                 THEN LET data == GetData(polygonVertexIndex, polygonIndex,
                                          vertexIndex, geoInfo.normal[1])
                      IN  faceNormals \o <<At(data, 0), At(data, 1), At(data, 2)>>
                 ELSE faceNormals
           fuv == IF geoInfo.uv # << >>
                  THEN LET data == GetData(polygonVertexIndex, polygonIndex,
                                           vertexIndex, geoInfo.uv[1])
                       IN  faceUVs \o <<At(data, 0), At(data, 1)>>
                  ELSE faceUVs
           fc == IF geoInfo.colors # << >>
                 THEN LET data == GetData(polygonVertexIndex, polygonIndex,
                                          vertexIndex, geoInfo.colors[1])
                      IN  faceColors \o <<At(data, 0), At(data, 1), At(data, 2),
                                          Coalesce(At(data, 3), 1)>>
                 ELSE faceColors
       IN  /\ vertexIndices' = Append(vertexIndices, entry)
           /\ IF endOfFace
              THEN /\ buffers' = GenFace(buffers, geoInfo, fpi, fn, fuv, fc, faceLength + 1)
                   /\ polygonIndex' = polygonIndex + 1
                   /\ faceLength' = 0
                   /\ faceUVs' = << >>
                   /\ faceColors' = << >>
                   /\ faceNormals' = << >>
                   /\ facePositionIndexes' = << >>
              ELSE /\ buffers' = buffers
                   /\ polygonIndex' = polygonIndex
                   /\ faceLength' = faceLength + 1
                   /\ faceUVs' = fuv
                   /\ faceColors' = fc
                   /\ faceNormals' = fn
                   /\ facePositionIndexes' = fpi
    /\ UNCHANGED <<geoNode, genGeometry, geoInfo, gpc>>

(* _genGeomeetry, lines 74-81: the record made of the buffers. *)
(* The record with the Vertices of the node as its positions. *)
GenGeomeetryResult_VerticesPassedThrough(info, b) ==
    [uvs |-> b.uvs, indices |-> b.index, colors |-> b.colors,
     normals |-> b.normal, positions |-> info.vertexPositions]

GenGeomeetryResult(info, b) ==
    [uvs |-> b.uvs, indices |-> b.index, colors |-> b.colors,
     normals |-> b.normal, positions |-> b.vertex]

(* The array is exhausted: _genBuffers returns `buffers` and _genGeomeetry *)
(* the record made of them.                                                *)
GenBuffersReturn ==
    /\ gpc = "loop"
    /\ gpc' = "returned"
    /\ genGeometry' = <<GenGeomeetryResult(geoInfo, buffers)>>
    /\ UNCHANGED <<geoNode, geoInfo, vertexIndices, buffers, polygonIndex, faceLength,
                   faceUVs, faceColors, faceNormals, facePositionIndexes>>

(* No geometry is being reconstructed. *)
GeoIdle ==
    /\ geoNode = {}
    /\ genGeometry = << >>
    /\ geoInfo = [vertexPositions |-> << >>, normal |-> << >>, uv |-> << >>,
                  colors |-> << >>]
    /\ vertexIndices = << >>
    /\ buffers = [uvs |-> << >>, index |-> << >>, vertex |-> << >>,
                  colors |-> << >>, normal |-> << >>]
    /\ polygonIndex = 0
    /\ faceLength = 0
    /\ faceUVs = << >>
    /\ faceColors = << >>
    /\ faceNormals = << >>
    /\ facePositionIndexes = << >>
    /\ gpc = "returned"

(***************************************************************************)
(* FBXStream.readInt64.                                                    *)
(*                                                                         *)
(* The words of the stream are WordBits wide; the source's 32-bit words    *)
(* and its constants 0x80000000, 0xFFFFFFFF and 0x100000000 are scaled to  *)
(* that width.  JavaScript's bitwise operators convert their operands to   *)
(* signed words (ToInt32) and return a signed word.                        *)
(***************************************************************************)
WordBits == 6

RECURSIVE Pow2(_)
Pow2(n) == IF n = 0 THEN 1 ELSE 2 * Pow2(n - 1)

WordBase == Pow2(WordBits)          \* 0x100000000
WordMask == WordBase - 1            \* 0xFFFFFFFF
SignBit == Pow2(WordBits - 1)       \* 0x80000000
Words == 0..WordMask

(* ToInt32: the signed word congruent to x. *)
ToInt(x) ==
    LET m == x % WordBase
    IN  IF m >= SignBit THEN m - WordBase ELSE m

(* Bitwise and of two naturals below 2^n. *)
RECURSIVE AndBits(_, _, _)
AndBits(a, b, n) ==
    IF n = 0 THEN 0
    ELSE (IF a % 2 = 1 /\ b % 2 = 1 THEN 1 ELSE 0)
         + 2 * AndBits(a \div 2, b \div 2, n - 1)

(* `a & b` *)
BitAnd(a, b) == ToInt(AndBits(a % WordBase, b % WordBase, WordBits))

(* `~ a` *)
BitNot(a) == ToInt((0 - ToInt(a)) - 1)

(* The value readInt64 returns for the words low_ (read first) and high_. *)
ReadInt64(low_, high_) ==
    IF BitAnd(high_, SignBit) # 0
    THEN LET h1 == BitAnd(BitNot(high_), WordMask)
             l1 == BitAnd(BitNot(low_), WordMask)
             h2 == IF l1 = WordMask THEN BitAnd(h1 + 1, WordMask) ELSE h1
             l2 == BitAnd(l1 + 1, WordMask)
         IN  0 - (h2 * WordBase + l2)
    ELSE high_ * WordBase + low_

Int64Start ==
    /\ low \in Words
    /\ high \in Words
    /\ int64 = 0
    /\ ipc = "call"

Int64Idle ==
    /\ low = 0
    /\ high = 0
    /\ int64 = 0
    /\ ipc = "returned"

ReadInt64Call ==
    /\ ipc = "call"
    /\ int64' = ReadInt64(low, high)
    /\ ipc' = "returned"
    /\ UNCHANGED <<low, high>>

(***************************************************************************)
(* FBXLoader.IsValidFBX and the test of it in QuixelListener._createMeshes.*)
(***************************************************************************)

(* FBXLoader._Magic, "Kaydara FBX Binary  \0", as character codes. *)
Magic == <<75, 97, 121, 100, 97, 114, 97, 32, 70, 66, 88, 32,
           66, 105, 110, 97, 114, 121, 32, 32, 0>>

(* The most bytes a file of the model holds after its first 21. *)
MaxTail == 2

(* The files: a prefix of the magic, with at most one byte replaced (by    *)
(* 255, which is no UTF-8), followed after a whole prefix by the bytes     *)
(* 26, 0 of a real header.                                                 *)
HeaderTail == <<26, 0>>

Files ==
    {[j \in 1..(n + t) |->
         IF j = bad THEN 255
         ELSE IF j <= Len(Magic) THEN Magic[j] ELSE HeaderTail[((j - Len(Magic) - 1) % 2) + 1]] :
       n \in 0..Len(Magic), t \in 0..MaxTail, bad \in 0..Len(Magic)}

(* buffer.toString("utf-8", 0, end): a byte below 128 is its character,    *)
(* any other byte of these files decodes to U+FFFD.                        *)
Utf8ToString(buffer, end) ==
    [j \in 1..(IF end < Len(buffer) THEN end ELSE Len(buffer)) |->
        IF buffer[j] < 128 THEN buffer[j] ELSE 65533]

IsValidFBX(buffer) ==
    Len(buffer) < Len(Magic) \/ Utf8ToString(buffer, Len(buffer)) # Magic

MagicStart ==
    /\ content \in Files
    /\ isValid = FALSE
    /\ mpc = "read"

MagicIdle ==
    /\ content = << >>
    /\ isValid = FALSE
    /\ mpc = "idle"

(* `FBXLoader.IsValidFBX(content)` *)
IsValidFBXCall ==
    /\ mpc = "read"
    /\ isValid' = IsValidFBX(content)
    /\ mpc' = "tested"
    /\ UNCHANGED content

(* `if (!FBXLoader.IsValidFBX(content)) { return logWarning(...) }` *)
CreateMeshesSkip ==
    /\ mpc = "tested"
    /\ ~isValid
    /\ mpc' = "skipped"
    /\ UNCHANGED <<content, isValid>>

(* `const loader = new FBXLoader(content)` *)
CreateMeshesLoad ==
    /\ mpc = "tested"
    /\ isValid
    /\ mpc' = "loading"
    /\ UNCHANGED <<content, isValid>>

(***************************************************************************)
(* Node Tree Parser: the values of the decoded tree.                       *)
(*                                                                         *)
(* A JavaScript value is a record of one shape: `k` is its kind and one of *)
(* the other fields holds it: `n` a number or a boolean (1, 0), `s` a      *)
(* string, `a` an array of numbers, `l` an array of values, `o` an object, *)
(* i.e. a function from its keys to values.                                *)
(***************************************************************************)
Value(k, n, s, a, l, o) == [k |-> k, n |-> n, s |-> s, a |-> a, l |-> l, o |-> o]

Undefined == Value("undefined", 0, "", << >>, << >>, << >>)
Num(n) == Value("number", n, "", << >>, << >>, << >>)
Bool(b) == Value("boolean", IF b THEN 1 ELSE 0, "", << >>, << >>, << >>)
Str(s) == Value("string", 0, s, << >>, << >>, << >>)
Arr(a) == Value("array", 0, "", a, << >>, << >>)
List(l) == Value("list", 0, "", << >>, l, << >>)
Obj(o) == Value("object", 0, "", << >>, << >>, o)

(* The object with no key. *)
EmptyObject == << >>

(* o[key] *)
GetKey(o, key) == IF key \in DOMAIN o THEN o[key] ELSE Undefined

(* o[key] = v *)
PutKey(o, key, v) ==
    [x \in (DOMAIN o) \cup {key} |-> IF x = key THEN v ELSE o[x]]

(* Number.prototype.toString, on the numbers the files of the model hold. *)
NumberToString(n) ==
    CASE n = 0 -> "0" [] n = 1 -> "1" [] n = 2 -> "2" [] n = 3 -> "3"
      [] n = 4 -> "4" [] n = 5 -> "5" [] n = 6 -> "6" [] n = 7 -> "7"
      [] n = 8 -> "8" [] n = 9 -> "9" [] OTHER -> "NaN"

(* The index a key denotes in a string, Undef when it denotes none. *)
StringIndex(key) ==
    CASE key = "0" -> 0 [] key = "1" -> 1 [] key = "2" -> 2 [] key = "3" -> 3
      [] key = "4" -> 4 [] key = "5" -> 5 [] key = "6" -> 6 [] key = "7" -> 7
      [] key = "8" -> 8 [] key = "9" -> 9 [] OTHER -> Undef

(* The length of the strings the files of the model hold: record names,    *)
(* string properties.                                                      *)
StringLength(str) ==
    CASE str = "" -> 0
      [] str \in {"C", "P", "a"} -> 1
      [] str = "OO" -> 2
      [] str = "Color" -> 5
      [] str = "Objects" -> 7
      [] str \in {"Geometry", "PoseNode", "Vertices"} -> 8
      [] str = "Connections" -> 11
      [] str = "Properties70" -> 12
      [] str \in {"Lcl Translation", "Lcl_Translation"} -> 15

(* The key a value denotes when it is used as a property name. *)
PropertyKey(v) ==
    CASE v.k = "string" -> v.s
      [] v.k = "number" -> NumberToString(v.n)
      [] v.k = "boolean" -> (IF v.n = 1 THEN "true" ELSE "false")
      [] OTHER -> "undefined"

(* `v[key]` for a value v that is not undefined. *)
GetProperty(v, key) ==
    CASE v.k = "object" -> GetKey(v.o, key)
      [] v.k = "string" ->
            (IF StringIndex(key) # Undef /\ StringIndex(key) < StringLength(v.s)
             THEN Str("a") ELSE Undefined)
      [] v.k = "list" ->
            (IF StringIndex(key) # Undef /\ StringIndex(key) < Len(v.l)
             THEN v.l[StringIndex(key) + 1] ELSE Undefined)
      [] OTHER -> Undefined

(* `s.indexOf("Lcl ") === 0` and `s.replace("Lcl ", "Lcl_")` *)
StartsWithLcl(str) == str = "Lcl Translation"
ReplaceLcl(str) == IF str = "Lcl Translation" THEN "Lcl_Translation" ELSE str

(* propertyList[i] *)
ListAt(l, i) == IF i >= 0 /\ i < Len(l) THEN l[i + 1] ELSE Undefined

(***************************************************************************)
(* FBXLoader._parseSubNode(name, node, subNode): the node after the call   *)
(* and the error the call raised ("" when it returned).                    *)
(***************************************************************************)
Merged(node, err) == [node |-> node, err |-> err]

(* Lines 142-168: a "P" record under "Properties70". *)
ParsePropertyEntry(node, subNode) ==
    LET pl == GetKey(subNode, "propertyList").l
        name0 == ListAt(pl, 0)
        type0 == ListAt(pl, 1)
    IN  IF name0.k # "string" \/ type0.k # "string"
        THEN Merged(node, "TypeError")
        ELSE LET innerPropName == ReplaceLcl(name0.s)
                 innerPropType1 == ReplaceLcl(type0.s)
                 innerPropValue ==
                    IF innerPropType1 \in {"Color", "ColorRGB", "Vector", "Vector3D",
                                           "Lcl_Translation"}
                    THEN List(<<ListAt(pl, 4), ListAt(pl, 5), ListAt(pl, 6)>>)
                    ELSE ListAt(pl, 4)
             IN  Merged(PutKey(node, innerPropName,
                           Obj([type |-> Str(innerPropType1),
                                type2 |-> ListAt(pl, 2),
                                flag |-> ListAt(pl, 3),
                                value |-> innerPropValue])), "")

(* Lines 169-188: a child stored under its name. *)
ParseNamedChild(node, subNode) ==
    LET key == PropertyKey(GetKey(subNode, "name"))
        id == GetKey(subNode, "id")
        idKey == PropertyKey(id)
        old == GetKey(node, key)
    IN  IF old = Undefined
        THEN IF id.k = "number"
             THEN Merged(PutKey(node, key, Obj(PutKey(EmptyObject, idKey, Obj(subNode)))), "")
             ELSE Merged(PutKey(node, key, Obj(subNode)), "")
        ELSE IF key = "PoseNode"
        THEN Merged(PutKey(node, key,
                       List((IF old.k \in {"list", "array"} THEN old.l ELSE <<old>>)
                            \o <<Obj(subNode)>>)), "")
        ELSE IF GetProperty(old, idKey) = Undefined
        THEN CASE old.k = "object" ->
                    Merged(PutKey(node, key, Obj(PutKey(old.o, idKey, Obj(subNode)))), "")
               [] old.k \in {"number", "boolean", "string"} ->
                    \* an assignment to a property of a primitive, in strict code
                    Merged(node, "TypeError")
               [] OTHER -> Merged(node, "Unmodelled")
        ELSE Merged(node, "")

(* ParseSubNode keeping the first property in the tuple of a connection. *)
ParseSubNode_KeepsFirstProperty(name, node, subNode) ==
    LET childName == GetKey(subNode, "name")
        key == PropertyKey(childName)
        pl == GetKey(subNode, "propertyList").l
    IN  IF GetKey(subNode, "singleProperty") = Bool(TRUE)
        THEN LET value == ListAt(pl, 0)
             IN  IF value.k = "array"
                 THEN Merged(PutKey(node, key, Obj(PutKey(subNode, "a", value))), "")
                 ELSE Merged(PutKey(node, key, value), "")
        ELSE IF name = "Connections" /\ childName = Str("C")
        THEN LET array == List(pl)
                 old == GetKey(node, "connections")
             IN  Merged(PutKey(node, "connections",
                           List((IF old = Undefined THEN << >> ELSE old.l) \o <<array>>)), "")
        ELSE IF childName = Str("Properties70")
        THEN Merged([x \in (DOMAIN node) \cup (DOMAIN subNode) |->
                        IF x \in DOMAIN subNode THEN subNode[x] ELSE node[x]], "")
        ELSE IF name = "Properties70" /\ childName = Str("P")
        THEN ParsePropertyEntry(node, subNode)
        ELSE ParseNamedChild(node, subNode)

ParseSubNode(name, node, subNode) ==
    LET childName == GetKey(subNode, "name")
        key == PropertyKey(childName)
        pl == GetKey(subNode, "propertyList").l
    IN  IF GetKey(subNode, "singleProperty") = Bool(TRUE)
        THEN LET value == ListAt(pl, 0)
             IN  IF value.k = "array"
                 THEN Merged(PutKey(node, key, Obj(PutKey(subNode, "a", value))), "")
                 ELSE Merged(PutKey(node, key, value), "")
        ELSE IF name = "Connections" /\ childName = Str("C")
        THEN LET array == List(SubSeq(pl, 2, Len(pl)))
                 old == GetKey(node, "connections")
             IN  Merged(PutKey(node, "connections",
                           List((IF old = Undefined THEN << >> ELSE old.l) \o <<array>>)), "")
        ELSE IF childName = Str("Properties70")
        THEN Merged([x \in (DOMAIN node) \cup (DOMAIN subNode) |->
                        IF x \in DOMAIN subNode THEN subNode[x] ELSE node[x]], "")
        ELSE IF name = "Properties70" /\ childName = Str("P")
        THEN ParsePropertyEntry(node, subNode)
        ELSE ParseNamedChild(node, subNode)

(***************************************************************************)
(* FBXLoader: the files.                                                   *)
(*                                                                         *)
(* The cursor of the stream never moves back, so no byte is read twice and *)
(* the fields of the file are drawn when they are read.  A profile bounds  *)
(* what the fields of one file may hold.                                   *)
(***************************************************************************)

(* The footer: 160 bytes and 16 bytes of padding. *)
FooterSize == 160 + 16

(* The bytes before the first record: the magic, two bytes, the version. *)
HeaderSize == 23 + 4

(* The bytes of records before the footer, in the files of each profile:   *)
(* "Objects" holding "Geometry" with one property,                         *)
(* "Objects" holding two records with one property each, a number and an   *)
(* array,                                                                  *)
(* "Objects" holding three "Geometry" with two properties each,            *)
(* "Geometry" with two compressed arrays,                                  *)
(* "Objects" holding a "Geometry" with one property, with 64-bit fields,   *)
(* "Connections" holding two "C" with two properties each.                 *)
MaxContent == 46
MaxLeavesContent == 83
MaxSiblingsContent == 113
MaxArraysContent == 65
MaxWideContent == 70
MaxConnectionsContent == 72

Profiles == {"tree", "leaves", "siblings", "arrays", "wide", "connections"}

ContentSize(pr) ==
    CASE pr = "tree" -> MaxContent
      [] pr = "leaves" -> MaxLeavesContent
      [] pr = "siblings" -> MaxSiblingsContent
      [] pr = "arrays" -> MaxArraysContent
      [] pr = "wide" -> MaxWideContent
      [] pr = "connections" -> MaxConnectionsContent

(* File sizes: no room for a record, room for the start of one record,     *)
(* the next multiple of 16, room for ContentSize bytes of records.         *)
Sizes(pr) ==
    IF pr = "tree"
    THEN {HeaderSize + FooterSize, HeaderSize + FooterSize + 1,
          16 * ((HeaderSize + FooterSize) \div 16 + 1),
          HeaderSize + FooterSize + ContentSize(pr)}
    ELSE {HeaderSize + FooterSize + ContentSize(pr)}

(* The versions: 32-bit header fields, and in the "wide" files the two     *)
(* versions around the one that makes them 64-bit.                         *)
Versions(pr) == IF pr = "wide" THEN {7499, 7500} ELSE {7400}

(* The names a record may bear. *)
Names(pr) ==
    CASE pr = "tree" -> {"", "Objects", "Geometry"}
      [] pr = "arrays" -> {"", "Geometry"}
      [] pr = "connections" -> {"Connections", "C"}
      [] OTHER -> {"Objects", "Geometry"}

(* endOffset of a record, as a distance from the end of its name; 0 stands *)
(* for the endOffset 0 of a null record.  The distances are those of one   *)
(* or two properties and of the records that fit in the content.           *)
EndDistances(pr) ==
    CASE pr = "tree" -> {0, 5, 6, 10, 17, 18, 26}
      [] pr = "leaves" -> {5, 17, 63}
      [] pr = "siblings" -> {10, 93}
      [] pr = "arrays" -> {0, 44}
      [] pr = "wide" -> {5, 38}
      [] pr = "connections" -> {5, 10, 48}

PropertyCounts(pr) ==
    CASE pr = "tree" -> {0, 1, 2}
      [] pr = "leaves" -> {0, 1}
      [] pr = "siblings" -> {0, 2}
      [] pr = "arrays" -> {2}
      [] pr = "wide" -> {0, 1}
      [] pr = "connections" -> {0, 1, 2}

(* The properties: the type tag, the value encoded, the words read after   *)
(* the tag and the bytes of the payload read by readString.  The property  *)
(* is not a compressed array: its encoding field, if it has one, is 0.     *)
Property(tag, value, words, payload) ==
    [tag |-> tag, value |-> value, words |-> words, payload |-> payload,
     arrayLength |-> Len(value.a), encoding |-> 0, compressedLength |-> 0,
     inflates |-> TRUE, inflated |-> << >>]

(* An array property whose encoding field is not 0: the three fields after *)
(* the tag, whether zlib inflates the compressedLength bytes that follow,  *)
(* and the elements held by the inflated buffer.                           *)
CompressedArray(tag, arrayLength, encoding, compressedLength, inflates, inflated) ==
    [tag |-> tag, value |-> Undefined, words |-> 3, payload |-> compressedLength,
     arrayLength |-> arrayLength, encoding |-> encoding,
     compressedLength |-> compressedLength,
     inflates |-> inflates, inflated |-> inflated]

ArrayTags == {"b", "c", "d", "f", "i", "l"}

Properties(pr) ==
    CASE pr = "tree" ->
            {Property("I", Num(1), 1, 0), Property("S", Str("a"), 1, 1),
             Property("i", Arr(<<7>>), 4, 0), Property("Z", Undefined, 0, 0)}
      [] pr = "leaves" ->
            {Property("I", Num(1), 1, 0), Property("i", Arr(<<7>>), 4, 0)}
      [] pr = "siblings" ->
            {Property("I", Num(1), 1, 0), Property("I", Num(2), 1, 0)}
      [] pr = "arrays" ->
            {Property("I", Num(1), 1, 0),
             CompressedArray("i", 1, 1, 9, TRUE, <<7>>),
             CompressedArray("i", 1, 1, 9, TRUE, <<7, 8>>),
             CompressedArray("i", 2, 1, 9, TRUE, <<7>>),
             CompressedArray("i", 0, 2, 11, TRUE, <<7, 8>>),
             CompressedArray("i", 2, 2, 11, TRUE, <<7, 8>>),
             CompressedArray("l", 1, 1, 9, FALSE, << >>)}
      [] pr = "wide" -> {Property("I", Num(1), 1, 0)}
      [] pr = "connections" -> {Property("I", Num(1), 1, 0)}

SupportedTags == {"C", "I", "L", "F", "D", "S", "R", "b", "c", "d", "f", "i", "l"}

(***************************************************************************)
(* FBXStream reads, as far as the loader sees them: a read of `words`      *)
(* 32-bit words at p raises RangeError at the first word that does not     *)
(* lie in the buffer.                                                      *)
(***************************************************************************)
WordsInBuffer(p, words) ==
    LET room == IF size > p THEN (size - p) \div 4 ELSE 0
    IN  IF room < words THEN room ELSE words

(***************************************************************************)
(* FBXLoader._isEndOfContent                                               *)
(***************************************************************************)
(* _isEndOfContent holding only at the end of the buffer. *)
IsEndOfContent_NoFooter(offset) == offset >= size

IsEndOfContent(offset) ==
    IF size % 16 = 0
    THEN ((offset + 160 + 16) \div 16) * 16 >= size
    ELSE offset + 160 + 16 >= size

(***************************************************************************)
(* FBXLoader._parseProperty at offset p, for the property `c` found there: *)
(* the value returned, the offset after it and the error raised.           *)
(***************************************************************************)
Decoded(value, offset, err) == [value |-> value, offset |-> offset, err |-> err]

(* readString(1): the tag, empty when the cursor is at the end of the buffer. *)
TagRead(p, c) == IF p >= size THEN "" ELSE c.tag

(* _parseProperty returning undefined for a tag it does not know. *)
(* Lines 233-242 for an array whose encoding is not 0: readArrayBuffer     *)
(* moves the cursor of the file by compressedLength, inflateSync raises    *)
(* Error on bytes that are no zlib stream, and the elements are read by a  *)
(* new FBXStream on the inflated buffer, which raises RangeError when the  *)
(* buffer holds fewer than arrayLength elements.                           *)
(* ParseCompressedArray moving the cursor by the size of the inflated      *)
(* buffer, four bytes an element.                                          *)
ParseCompressedArray_InflatedSize(p, c) ==
    LET after == p + 1 + 4 * 3 + 4 * Len(c.inflated)
    IN  IF ~c.inflates THEN Decoded(Undefined, after, "Error")
        ELSE IF Len(c.inflated) < c.arrayLength
        THEN Decoded(Undefined, after, "RangeError")
        ELSE Decoded(Arr(SubSeq(c.inflated, 1, c.arrayLength)), after, "")

ParseCompressedArray(p, c) ==
    LET after == p + 1 + 4 * 3 + c.compressedLength
    IN  IF ~c.inflates THEN Decoded(Undefined, after, "Error")
        ELSE IF Len(c.inflated) < c.arrayLength
        THEN Decoded(Undefined, after, "RangeError")
        ELSE Decoded(Arr(SubSeq(c.inflated, 1, c.arrayLength)), after, "")

ParseProperty_SkipUnknownTag(p, c) ==
    IF TagRead(p, c) \notin SupportedTags
    THEN Decoded(Undefined, p + 1, "")
    ELSE IF WordsInBuffer(p + 1, c.words) = c.words
            /\ c.tag \in ArrayTags /\ c.encoding # 0
    THEN ParseCompressedArray(p, c)
    ELSE IF WordsInBuffer(p + 1, c.words) < c.words
    THEN Decoded(Undefined, p + 1 + 4 * WordsInBuffer(p + 1, c.words), "RangeError")
    ELSE Decoded(c.value, p + 1 + 4 * c.words + c.payload, "")

ParseProperty(p, c) ==
    IF TagRead(p, c) \notin SupportedTags
    THEN Decoded(Undefined, p + 1, "Error")
    ELSE IF WordsInBuffer(p + 1, c.words) = c.words
            /\ c.tag \in ArrayTags /\ c.encoding # 0
    THEN ParseCompressedArray(p, c)
    ELSE IF WordsInBuffer(p + 1, c.words) < c.words
    THEN Decoded(Undefined, p + 1 + 4 * WordsInBuffer(p + 1, c.words), "RangeError")
    ELSE Decoded(c.value, p + 1 + 4 * c.words + c.payload, "")

(***************************************************************************)
(* FBXLoader._parseNode, one activation per element of `stack`.            *)
(***************************************************************************)
Frame(name, endOffset, numProperties) ==
    [name |-> name, endOffset |-> endOffset, numProperties |-> numProperties,
     propertyList |-> << >>, node |-> EmptyObject, phase |-> "properties",
     propertiesEnd |-> 0, records |-> 0, merged |-> << >>, decoded |-> << >>]

Top == stack[Len(stack)]

SetTop(f) == [stack EXCEPT ![Len(stack)] = f]

(* The header of a record leaving the cursor where it was. *)
HeaderEnd_Unread(name) == pos

(* HeaderEnd with 32-bit fields whatever the version. *)
HeaderEnd_NarrowFields(name) == pos + 4 * 3 + 1 + StringLength(name)

(* The offset after the header of a record read at the cursor. *)
HeaderEnd(name) ==
    pos + 4 * 3 * (IF version >= 7500 THEN 2 ELSE 1) + 1 + StringLength(name)

(* The record lies in the content of the files of the profile. *)
Fits(distance, name) ==
    HeaderEnd(name) + distance <= HeaderSize + ContentSize(profile)

(* The records a file of the profile holds at the cursor: those of its     *)
(* menus that fit and, where the menus have no null record, a null record  *)
(* where none fits.                                                        *)
InProfile(distance, name) ==
    IF distance \in EndDistances(profile) /\ name \in Names(profile)
    THEN TRUE
    ELSE /\ distance = 0
         /\ name = ""
         /\ \A d \in EndDistances(profile), n \in Names(profile) : ~Fits(d, n)

(* A record is read next: by parse() while the content has not ended, by   *)
(* _parseNode while the children of the record have not ended.             *)
RecordExpected ==
    /\ lpc = "parsing"
    /\ IF stack = << >>
       THEN ~IsEndOfContent(pos)
       ELSE Top.phase = "children" /\ Top.endOffset > pos

(* The activation reading the record counts it. *)
CountRecord(st) ==
    IF st = << >> THEN st
    ELSE [st EXCEPT ![Len(st)].records = @ + 1]

(* Line 72 with no record taken for a null record. *)
IsNullRecord_Never(endOffset) == FALSE

(* Line 72: `endOffset === 0`. *)
IsNullRecord(endOffset) == endOffset = 0

(* Lines 62-72: the header of a record.  `distance` gives its endOffset,   *)
(* `name` its name, `numProperties` its property count.                    *)
ParseNodeHeader(distance, numProperties, name) ==
    /\ RecordExpected
    /\ distance = 0 => name = ""
    /\ LET fieldWords == IF version >= 7500 THEN 2 ELSE 1
           words == WordsInBuffer(pos, 3 * fieldWords)
           nameAt == pos + 4 * 3 * fieldWords
           nameEnd == HeaderEnd(name)
           endOffset == IF distance = 0 THEN 0 ELSE nameEnd + distance
       IN  IF words < 3 * fieldWords \/ nameAt >= size
           THEN \* readUInt32LE or readUInt8 outside the buffer
                /\ pos' = pos + 4 * words
                /\ lpc' = "thrown"
                /\ error' = "RangeError"
                /\ UNCHANGED stack
           ELSE /\ endOffset <= HeaderSize + ContentSize(profile)
                /\ pos' = nameEnd
                /\ stack' = IF IsNullRecord(endOffset)
                            THEN CountRecord(stack)
                            ELSE Append(CountRecord(stack),
                                        Frame(name, endOffset, numProperties))
                /\ UNCHANGED <<lpc, error>>
    /\ UNCHANGED <<profile, size, version, nodes, result, unsupported>>

(* Lines 75-78: one iteration of the property loop. *)
ParseNodeProperty(c) ==
    /\ lpc = "parsing"
    /\ stack # << >>
    /\ Top.phase = "properties"
    /\ Len(Top.propertyList) < Top.numProperties
    /\ LET d == ParseProperty(pos, c)
           call == [at |-> pos, property |-> c, decoded |-> d]
       IN  /\ pos' = d.offset
           /\ IF d.err = ""
              THEN /\ stack' = SetTop([Top EXCEPT !.propertyList = Append(@, d.value),
                                                  !.decoded = Append(@, call)])
                   /\ UNCHANGED <<lpc, error>>
              ELSE /\ lpc' = "thrown"
                   /\ error' = d.err
                   /\ stack' = SetTop([Top EXCEPT !.decoded = Append(@, call)])
           /\ unsupported' = IF TagRead(pos, c) \notin SupportedTags
                             THEN [seen |-> TRUE, offset |-> pos + 1]
                             ELSE unsupported
    /\ UNCHANGED <<profile, size, version, nodes, result>>

(* The flag set for every record of one property, children or not. *)
NewNode_AnyOneProperty(numProperties, offset, endOffset) ==
    [singleProperty |-> Bool(numProperties = 1)]

(* Lines 80-89: the node and its singleProperty flag. *)
NewNode(numProperties, offset, endOffset) ==
    [singleProperty |-> Bool(numProperties = 1 /\ offset = endOffset)]

ParseNodeCreate ==
    /\ lpc = "parsing"
    /\ stack # << >>
    /\ Top.phase = "properties"
    /\ Len(Top.propertyList) = Top.numProperties
    /\ stack' = SetTop([Top EXCEPT
                          !.node = NewNode(Top.numProperties, pos, Top.endOffset),
                          !.propertiesEnd = pos,
                          !.phase = "children"])
    /\ UNCHANGED <<profile, size, version, pos, nodes, lpc, result, error, unsupported>>

(* Lines 99-106: the fields written on the node after its children. *)
FinishNode(f) ==
    LET id == ListAt(f.propertyList, 0)
        attrName == IF Len(f.propertyList) > 1 THEN f.propertyList[2] ELSE Str("")
        attrType == IF Len(f.propertyList) > 2 THEN f.propertyList[3] ELSE Str("")
        n1 == PutKey(f.node, "propertyList", List(f.propertyList))
        n2 == IF id.k = "number" THEN PutKey(n1, "id", Str(NumberToString(id.n))) ELSE n1
        n3 == IF attrName # Str("") THEN PutKey(n2, "attrName", attrName) ELSE n2
        n4 == IF attrType # Str("") THEN PutKey(n3, "attrType", attrType) ELSE n3
    IN  IF f.name # "" THEN PutKey(n4, "name", Str(f.name)) ELSE n4

(* `x` is truthy. *)
Truthy(v) ==
    CASE v.k = "undefined" -> FALSE
      [] v.k \in {"number", "boolean"} -> v.n # 0
      [] v.k = "string" -> v.s # ""
      [] OTHER -> TRUE

(* Lines 91-106 once the children have ended: the node is returned, to     *)
(* _parseNode (lines 94-96), which merges it, or to parse() (lines 46-48). *)
ParseNodeReturn ==
    /\ lpc = "parsing"
    /\ stack # << >>
    /\ Top.phase = "children"
    /\ ~(Top.endOffset > pos)
    /\ LET subNode == FinishNode(Top)
           rest == SubSeq(stack, 1, Len(stack) - 1)
       IN  IF rest = << >>
           THEN /\ nodes' = IF Truthy(GetKey(subNode, "name"))
                            THEN PutKey(nodes, PropertyKey(GetKey(subNode, "name")),
                                        Obj(subNode))
                            ELSE nodes
                /\ stack' = rest
                /\ UNCHANGED <<lpc, error>>
           ELSE LET parent == rest[Len(rest)]
                    m == ParseSubNode(parent.name, parent.node, subNode)
                IN  /\ stack' = [rest EXCEPT ![Len(rest)] =
                                    [parent EXCEPT !.node = m.node,
                                                   !.merged = Append(@, subNode)]]
                    /\ lpc' = IF m.err = "" THEN lpc ELSE "thrown"
                    /\ error' = m.err
                    /\ UNCHANGED nodes
    /\ UNCHANGED <<profile, size, version, pos, result, unsupported>>

(***************************************************************************)
(* FBXLoader.parse, lines 51-55, once the content has ended.               *)
(* FBXGeometry.parse reads `geometry` and `connections` of its argument    *)
(* and _genGeomeetry reads `Vertices` of the former.                       *)
(***************************************************************************)
ParseOutcome(nodes_) ==
    LET objects == GetKey(nodes_, "Objects")
        geometry == GetProperty(objects, "Geometry")
    IN  IF objects = Undefined THEN [result |-> "none", error |-> "TypeError"]
        ELSE IF ~Truthy(geometry) THEN [result |-> "null", error |-> ""]
        ELSE IF GetProperty(geometry, "geometry") = Undefined
        THEN [result |-> "none", error |-> "TypeError"]
        ELSE [result |-> "geometries", error |-> ""]

ParseFinish ==
    /\ lpc = "parsing"
    /\ stack = << >>
    /\ IsEndOfContent(pos)
    /\ LET out == ParseOutcome(nodes)
       IN  /\ result' = out.result
           /\ error' = out.error
           /\ lpc' = IF out.error = "" THEN "returned" ELSE "thrown"
    /\ UNCHANGED <<profile, size, version, pos, stack, nodes, unsupported>>

(* Lines 32-37: the loader after its construction on a file. *)
LoaderStart ==
    /\ profile \in Profiles
    /\ size \in Sizes(profile)
    /\ version \in Versions(profile)
    /\ pos = 23 + 4
    /\ stack = << >>
    /\ nodes = EmptyObject
    /\ lpc = "parsing"
    /\ result = "none"
    /\ error = ""
    /\ unsupported = [seen |-> FALSE, offset |-> 0]

LoaderIdle ==
    /\ profile = ""
    /\ size = 0
    /\ version = 0
    /\ pos = 0
    /\ stack = << >>
    /\ nodes = EmptyObject
    /\ lpc = "idle"
    /\ result = "none"
    /\ error = ""
    /\ unsupported = [seen |-> FALSE, offset |-> 0]

(***************************************************************************)
(* FBXStream on its own: a buffer of `size` bytes, the cursor `pos`, and   *)
(* in `error` what the last call raised.                                   *)
(***************************************************************************)

(* The longest buffer given to a stream and the largest length or amount   *)
(* passed to skip, readString and readArrayBuffer.                         *)
MaxStreamSize == 6
MaxLength == 4

(* The widths of readUint8/readBool, readInt16, readUint32/readInt32/      *)
(* readFloat32 and readFloat64.                                            *)
PrimitiveWidths == {1, 2, 4, 8}

(* Lines 113-115: the stream after its construction. *)
StreamStart ==
    /\ profile = ""
    /\ size \in 0..MaxStreamSize
    /\ version = 0
    /\ pos = 0
    /\ stack = << >>
    /\ nodes = EmptyObject
    /\ lpc = "idle"
    /\ result = "none"
    /\ error = ""
    /\ unsupported = [seen |-> FALSE, offset |-> 0]

StreamUnchanged == UNCHANGED <<profile, size, version, stack, nodes, lpc, result,
                               unsupported>>

(* skip(amount) *)
StreamSkip(amount) ==
    /\ pos + amount <= MaxStreamSize + MaxLength
    /\ pos' = pos + amount
    /\ error' = ""
    /\ StreamUnchanged

(* readUint8, readInt16, readUint32, readInt32, readFloat32, readFloat64:  *)
(* the read of the Buffer raises RangeError outside the buffer, before the *)
(* cursor is moved.                                                        *)
StreamReadPrimitive(width) ==
    /\ IF pos + width <= size
       THEN pos' = pos + width /\ error' = ""
       ELSE pos' = pos /\ error' = "RangeError"
    /\ StreamUnchanged

(* readUint64, readInt64: two readUint32. *)
StreamReadTwoWords ==
    /\ pos' = pos + 4 * WordsInBuffer(pos, 2)
    /\ error' = IF WordsInBuffer(pos, 2) < 2 THEN "RangeError" ELSE ""
    /\ StreamUnchanged

(* readString(length): toString clamps its range to the buffer, the cursor *)
(* is moved by `length`.                                                   *)
StreamReadString(length) ==
    /\ pos + length <= MaxStreamSize + MaxLength
    /\ pos' = pos + length
    /\ error' = ""
    /\ StreamUnchanged

(* readArrayBuffer(length): subarray clamps its range to the buffer, the   *)
(* cursor is moved by `length`.                                            *)
StreamReadArrayBuffer(length) ==
    /\ pos + length <= MaxStreamSize + MaxLength
    /\ pos' = pos + length
    /\ error' = ""
    /\ StreamUnchanged

(***************************************************************************)
(* FBXStream: what its reads return.                                       *)
(*                                                                         *)
(* The read of Buffer at an offset (readUInt8, readInt16LE, readUInt32LE,  *)
(* readFloatLE, ...) is the value Stored there with that decoding; the two *)
(* words of a 64-bit read are drawn when they are read, each offset being  *)
(* read once.                                                              *)
(***************************************************************************)
MaxBufferSize == 9
MaxCount == 2

(* The reads of one call of Buffer and their widths. *)
FixedReads == {"readUint8", "readBool", "readInt16", "readUint32", "readInt32",
               "readFloat32", "readFloat64"}

WidthOf(op) ==
    CASE op \in {"readUint8", "readBool"} -> 1
      [] op = "readInt16" -> 2
      [] op \in {"readUint32", "readInt32", "readFloat32"} -> 4
      [] op = "readFloat64" -> 8

(* The array readers and the read each of them repeats. *)
ElementOf(op) ==
    CASE op = "readBoolArray" -> "readBool"
      [] op = "readInt32Array" -> "readInt32"
      [] op = "readFloat32Array" -> "readFloat32"
      [] op = "readFloat64Array" -> "readFloat64"

ArrayReads == {"readBoolArray", "readInt32Array", "readFloat32Array", "readFloat64Array"}

(* The words the 64-bit reads find in the buffer. *)
SampleWords == {0, 1, SignBit - 1, SignBit, WordMask}

(* What Buffer decodes at offset `at` for the read `op`. *)
Stored(op, at) == [decoded |-> op, at |-> at]

NoRead == [op |-> "", at |-> 0, count |-> 0, words |-> << >>, value |-> << >>,
           error |-> ""]

ReadStart ==
    /\ streamSize \in 0..MaxBufferSize
    /\ streamPos = 0
    /\ lastRead = NoRead

ReadIdle ==
    /\ streamSize = 0
    /\ streamPos = 0
    /\ lastRead = << >>

(* readUint8 ... readFloat64: Buffer raises RangeError outside the buffer, *)
(* before the cursor is moved.                                             *)
ReadFixed(op) ==
    /\ IF streamPos + WidthOf(op) <= streamSize
       THEN /\ streamPos' = streamPos + WidthOf(op)
            /\ lastRead' = [NoRead EXCEPT !.op = op, !.at = streamPos,
                                          !.value = Stored(op, streamPos)]
       ELSE /\ streamPos' = streamPos
            /\ lastRead' = [NoRead EXCEPT !.op = op, !.at = streamPos,
                                          !.error = "RangeError"]
    /\ UNCHANGED streamSize

(* The number of reads of `width` bytes, out of `count`, that Buffer       *)
(* allows from `at`.                                                       *)
ReadsInBuffer(at, width, count) ==
    IF streamSize < at THEN 0
    ELSE IF (streamSize - at) \div width < count
         THEN (streamSize - at) \div width ELSE count

(* readUint64 and readInt64: readUint32 for the low word, then for the     *)
(* high word.                                                              *)
ReadTwoWords(op, low_, high_) ==
    LET done == ReadsInBuffer(streamPos, 4, 2)
    IN  /\ streamPos' = streamPos + 4 * done
        /\ lastRead' =
              IF done < 2
              THEN [NoRead EXCEPT !.op = op, !.at = streamPos, !.error = "RangeError"]
              ELSE [NoRead EXCEPT !.op = op, !.at = streamPos,
                                  !.words = <<low_, high_>>,
                                  !.value = IF op = "readUint64"
                                            THEN high_ * WordBase + low_
                                            ELSE ReadInt64(low_, high_)]
        /\ UNCHANGED streamSize

(* readBoolArray, readInt32Array, readFloat32Array, readFloat64Array: the  *)
(* loop of `length` reads, left by the first RangeError.                   *)
ReadArray(op, count) ==
    LET width == WidthOf(ElementOf(op))
        done == ReadsInBuffer(streamPos, width, count)
    IN  /\ streamPos' = streamPos + width * done
        /\ lastRead' =
              IF done < count
              THEN [NoRead EXCEPT !.op = op, !.at = streamPos, !.count = count,
                                  !.error = "RangeError"]
              ELSE [NoRead EXCEPT !.op = op, !.at = streamPos, !.count = count,
                        !.value = [k \in 1..count |->
                                      Stored(ElementOf(op), streamPos + width * (k - 1))]]
        /\ UNCHANGED streamSize

(* readInt64Array: the loop of `length` readInt64. *)
ReadInt64Array(count, ws) ==
    LET done == ReadsInBuffer(streamPos, 4, 2 * count)
    IN  /\ streamPos' = streamPos + 4 * done
        /\ lastRead' =
              IF done < 2 * count
              THEN [NoRead EXCEPT !.op = "readInt64Array", !.at = streamPos,
                                  !.count = count, !.error = "RangeError"]
              ELSE [NoRead EXCEPT !.op = "readInt64Array", !.at = streamPos,
                        !.count = count, !.words = ws,
                        !.value = [k \in 1..count |-> ReadInt64(ws[k][1], ws[k][2])]]
        /\ UNCHANGED streamSize

(* readString(length) and readArrayBuffer(length): the bytes of the range, *)
(* which toString and subarray clamp to the buffer; the cursor is moved by *)
(* `length`.                                                               *)
ReadBytes(op, length) ==
    LET start == IF streamPos < streamSize THEN streamPos ELSE streamSize
        end == IF streamPos + length < streamSize THEN streamPos + length ELSE streamSize
    IN  /\ streamPos + length <= MaxBufferSize + MaxLength
        /\ streamPos' = streamPos + length
        /\ lastRead' = [NoRead EXCEPT !.op = op, !.at = streamPos, !.count = length,
                            !.value = [k \in 1..(end - start) |->
                                          Stored("byte", start + k - 1)]]
        /\ UNCHANGED streamSize

(***************************************************************************)
(* FBXGeometry.parse and _recursivelyParse.                                *)
(*                                                                         *)
(* The node objects are numbered, 0 being options.geometry; `name` gives   *)
(* the name field of each and `child` the nodes it holds under the keys    *)
(* that are ids.  The objects form a tree, as the nodes built by           *)
(* FBXLoader do.                                                           *)
(***************************************************************************)

(* The longest Connections list. *)
MaxTuples == 3

NoChild == << >>

ObjectTrees ==
    << \* two geometries under the root, a third under the first
       [name |-> <<"Geometry", "Geometry", "Geometry", "Geometry">>,
        child |-> <<("1" :> 1) @@ ("2" :> 2), ("3" :> 3), NoChild, NoChild>>],
       \* a node that is no geometry under the root, id 2 used at two depths
       [name |-> <<"Geometry", "Geometry", "Model", "Geometry">>,
        child |-> <<("1" :> 1) @@ ("2" :> 2), ("2" :> 3), NoChild, NoChild>>],
       \* a chain
       [name |-> <<"Geometry", "Geometry", "Geometry", "Geometry">>,
        child |-> <<("1" :> 1), ("2" :> 2), ("3" :> 3), NoChild>>],
       \* the root alone
       [name |-> <<"Geometry", "", "", "">>,
        child |-> <<NoChild, NoChild, NoChild, NoChild>>] >>

(* The tuples of the Connections list: a child id and a parent id. *)
Tuples == {<<1, 0>>, <<2, 0>>, <<3, 1>>}

(* node.name and node[key] of the node object n; Undef is undefined. *)
NameOf(n) == nodeObjects.name[n + 1]

ChildOf(n, key) ==
    IF key \in DOMAIN nodeObjects.child[n + 1] THEN nodeObjects.child[n + 1][key] ELSE Undef

(* Line 47: geometries.push(this._genGeomeetry(rootGeometryNode)). *)
(* The record put in front of the records pushed before. *)
PushGeometry_InFront(list, n) == <<n>> \o list

PushGeometry(list, n) == Append(list, n)

(* The state before FBXGeometry.parse is called. *)
DiscoverStart ==
    /\ \E t \in 1..Len(ObjectTrees) : nodeObjects = ObjectTrees[t]
    /\ connections \in UNION {[1..len -> Tuples] : len \in 0..MaxTuples}
    /\ calls = << >>
    /\ geometries = << >>
    /\ dpc = "start"

DiscoverIdle ==
    /\ nodeObjects = [name |-> << >>, child |-> << >>]
    /\ connections = << >>
    /\ calls = << >>
    /\ geometries = << >>
    /\ dpc = "idle"

(* An activation of _recursivelyParse on node n: the record of n is pushed *)
(* and forEach starts at the first tuple.                                  *)
Activation(n) == [node |-> n, next |-> 1]

(* Lines 39-41 and 47: parse calls _recursivelyParse on options.geometry. *)
GeometryParse ==
    /\ dpc = "start"
    /\ calls' = <<Activation(0)>>
    /\ geometries' = PushGeometry(geometries, 0)
    /\ dpc' = "running"
    /\ UNCHANGED <<nodeObjects, connections>>

(* Lines 49-56: the callback of forEach on the next tuple; a recursive     *)
(* call pushes the record of the node found (line 47).                     *)
RecursivelyParseVisit ==
    /\ dpc = "running"
    /\ calls # << >>
    /\ LET top == calls[Len(calls)]
       IN  /\ top.next <= Len(connections)
           /\ LET c == connections[top.next]
                  id == NumberToString(c[1])
                  value == ChildOf(top.node, id)
                  advanced == [calls EXCEPT ![Len(calls)].next = @ + 1]
              IN  IF value # Undef /\ NameOf(value) = "Geometry"
                  THEN /\ calls' = Append(advanced, Activation(value))
                       /\ geometries' = PushGeometry(geometries, value)
                  ELSE /\ calls' = advanced
                       /\ UNCHANGED geometries
    /\ UNCHANGED <<nodeObjects, connections, dpc>>

(* Line 58: forEach has visited every tuple, the activation returns. *)
RecursivelyParseReturn ==
    /\ dpc = "running"
    /\ calls # << >>
    /\ calls[Len(calls)].next > Len(connections)
    /\ calls' = SubSeq(calls, 1, Len(calls) - 1)
    /\ dpc' = IF Len(calls) = 1 THEN "returned" ELSE dpc
    /\ UNCHANGED <<nodeObjects, connections, geometries>>

(***************************************************************************)
(* QuixelListener.importAssets and what it awaits.                         *)
(*                                                                         *)
(* A call of importAssets is at "idle" (not called yet), "waiting" (at the *)
(* test of its wait loop), "sleeping" (in Tools.Wait), "copying" (awaiting *)
(* the copies of the textures), "handling" (awaiting the _handleExport of  *)
(* every queued asset), "refreshing" (awaiting assets.refresh), "done"     *)
(* (returned) or "rejected" (its promise rejected).                        *)
(***************************************************************************)

(* The calls of importAssets made on one listener. *)
MaxImports == 2

Imports == 1..MaxImports

(* The lengths of `exports` and the LOD files of an exported asset. *)
ExportCounts == {1, 2}
LodFiles == {1, 2}

(* The assets a call may export. *)
AssetsOf(i) == {<<i, k>> : k \in ExportCounts}

Assets == UNION {AssetsOf(i) : i \in Imports}

(* The state of a listener after its construction. *)
ImportStart ==
    /\ queue = << >>
    /\ imports = [i \in Imports |-> [pc |-> "idle", exports |-> << >>, addToScene |-> FALSE,
                                      notified |-> << >>]]
    /\ lods = [a \in Assets |-> [l \in LodFiles |-> "pending"]]

ImportIdle ==
    /\ queue = << >>
    /\ imports = << >>
    /\ lods = << >>

(* importAssets(exports, addToScene) is called: it is at its wait loop. *)
ImportAssetsCall(i, count, addToScene) ==
    /\ imports[i].pc = "idle"
    /\ imports' = [imports EXCEPT ![i] =
                      [pc |-> "waiting",
                       exports |-> [k \in 1..count |-> <<i, k>>],
                       addToScene |-> addToScene,
                       notified |-> << >>]]
    /\ UNCHANGED <<queue, lods>>

(* Lines 941-943: the queue is not empty, the call awaits Tools.Wait(150). *)
ImportAssetsSleep(i) ==
    /\ imports[i].pc = "waiting"
    /\ Len(queue) # 0
    /\ imports' = [imports EXCEPT ![i].pc = "sleeping"]
    /\ UNCHANGED <<queue, lods>>

(* The wait has elapsed: back to the test of the loop. *)
ImportAssetsWake(i) ==
    /\ imports[i].pc = "sleeping"
    /\ imports' = [imports EXCEPT ![i].pc = "waiting"]
    /\ UNCHANGED <<queue, lods>>

(* Lines 945-955: the queue is empty; the exports are queued and, when     *)
(* they are added to the scene, the copies of the textures are awaited.    *)
ImportAssetsEnqueue(i) ==
    /\ imports[i].pc = "waiting"
    /\ Len(queue) = 0
    /\ queue' = queue \o imports[i].exports
    /\ imports' = [imports EXCEPT ![i].pc =
                      IF imports[i].addToScene THEN "copying" ELSE "refreshing"]
    /\ UNCHANGED lods

(* Lines 956-966: the textures are copied; _handleExport is called on      *)
(* every asset of the queue and the call awaits them all.                  *)
ImportAssetsHandle(i) ==
    /\ imports[i].pc = "copying"
    /\ imports' = [imports EXCEPT ![i].pc = "handling"]
    /\ UNCHANGED <<queue, lods>>

(* The assets whose _handleExport was started by call i. *)
Handled(i) ==
    IF imports[i].pc \in {"handling", "rejected"} \/
       (imports[i].pc \in {"refreshing", "done"} /\ imports[i].addToScene)
    THEN {imports[i].exports[k] : k \in 1..Len(imports[i].exports)}
    ELSE {}

(* _createMeshes, the callback of lodList.map on one LOD file, lines       *)
(* 1232-1284: the file is read and either skipped with a warning (not an   *)
(* FBX file, no geometry), or turned into meshes, or FBXLoader.parse       *)
(* throws and the promise of the callback rejects.  The callbacks of an    *)
(* asset run whatever became of the others.                                *)
CreateMeshesLod(a, l, outcome) ==
    /\ a \in Handled(a[1])
    /\ lods[a][l] = "pending"
    /\ lods' = [lods EXCEPT ![a][l] = outcome]
    /\ UNCHANGED <<queue, imports>>

LodOutcomes == {"skipped", "meshes", "thrown"}

(* A rejected callback rejects the Promise.all of _createMeshes (line      *)
(* 1287), _handleExport and the Promise.all of line 963: importAssets      *)
(* rejects at its await, nothing of lines 968-986 is run.                  *)
ImportAssetsReject(i) ==
    /\ imports[i].pc = "handling"
    /\ \E a \in Handled(i), l \in LodFiles : lods[a][l] = "thrown"
    /\ imports' = [imports EXCEPT ![i].pc = "rejected"]
    /\ UNCHANGED <<queue, lods>>

(* Lines 963-973: every _handleExport has fulfilled; the task is closed    *)
(* and the refresh of the assets awaited.                                  *)
ImportAssetsHandled(i) ==
    /\ imports[i].pc = "handling"
    /\ \A a \in Handled(i), l \in LodFiles : lods[a][l] \in {"skipped", "meshes"}
    /\ imports' = [imports EXCEPT ![i].pc = "refreshing"]
    /\ UNCHANGED <<queue, lods>>

(* Lines 975-986: the assets of the queue are registered and notified, the *)
(* queue is emptied.                                                       *)
ImportAssetsDone(i) ==
    /\ imports[i].pc = "refreshing"
    /\ queue' = << >>
    /\ imports' = [imports EXCEPT ![i].pc = "done", ![i].notified = queue]
    /\ UNCHANGED lods

(***************************************************************************)
(* Two FBXLoader objects, each on its own buffer, the two buffers holding  *)
(* the same bytes.                                                         *)
(*                                                                         *)
(* The loader variables are the fields of the loader whose code runs and   *)
(* `other` holds the fields of the loader at rest; PairSwitch passes from  *)
(* one to the other, at any point of a parse.  `drawn` keeps what was read *)
(* at each offset, so that both loaders read the same bytes.               *)
(***************************************************************************)

PairProfiles == {"arrays"}

(* The fields of an FBXLoader object and of its FBXStream. *)
LoaderFields ==
    [size |-> size, version |-> version, pos |-> pos, stack |-> stack,
     nodes |-> nodes, lpc |-> lpc, result |-> result, error |-> error,
     unsupported |-> unsupported]

(* this._stream._pos of a loader. *)
(* One cursor for every stream: the cursor of the loader that ran last. *)
CursorOf_Static(loader) == pos

CursorOf(loader) == loader.pos

PairStart ==
    /\ LoaderStart
    /\ profile \in PairProfiles
    /\ active = 1
    /\ other = LoaderFields
    /\ drawn = [headers |-> << >>, properties |-> << >>]

PairIdle ==
    /\ active = 0
    /\ other = << >>
    /\ drawn = << >>

(* The bytes at the cursor are those read there before, if any. *)
SameBytes(read, fields) == pos \in DOMAIN read => read[pos] = fields

Read(read, fields) == [o \in DOMAIN read \cup {pos} |-> IF o = pos THEN fields ELSE read[o]]

PairParseNodeHeader(distance, numProperties, name) ==
    /\ SameBytes(drawn.headers, <<distance, numProperties, name>>)
    /\ ParseNodeHeader(distance, numProperties, name)
    /\ drawn' = [drawn EXCEPT !.headers = Read(@, <<distance, numProperties, name>>)]
    /\ UNCHANGED <<active, other>>

PairParseNodeProperty(c) ==
    /\ SameBytes(drawn.properties, c)
    /\ ParseNodeProperty(c)
    /\ drawn' = [drawn EXCEPT !.properties = Read(@, c)]
    /\ UNCHANGED <<active, other>>

(* The code of the other loader runs next. *)
PairSwitch ==
    /\ active' = 3 - active
    /\ other' = LoaderFields
    /\ size' = other.size
    /\ version' = other.version
    /\ pos' = CursorOf(other)
    /\ stack' = other.stack
    /\ nodes' = other.nodes
    /\ lpc' = other.lpc
    /\ result' = other.result
    /\ error' = other.error
    /\ unsupported' = other.unsupported
    /\ UNCHANGED <<profile, drawn>>

(***************************************************************************)
(* QuixelServer.Connect: the connections of the local server.              *)
(*                                                                         *)
(* A chunk of data is the sequence of its bytes; a byte of the model names *)
(* the socket it came from and its rank there, so that the text of a       *)
(* buffer tells where each of its bytes came from.                         *)
(***************************************************************************)
MaxSockets == 2
MaxChunks == 2

Sockets == 1..MaxSockets

(* The k-th chunk received on socket c. *)
Chunk(c, k) == <<<<c, k>>>>

(* No connection was made; QuixelServer._Buffer is null, written << >>. *)
ServerStart ==
    /\ serverBuffer = << >>
    /\ sockets = [c \in Sockets |-> [state |-> "none", received |-> << >>]]
    /\ parses = << >>

ServerIdle ==
    /\ serverBuffer = << >>
    /\ sockets = << >>
    /\ parses = << >>

(* Lines 30-55: a client connects, the callback of the server registers    *)
(* the handlers of its socket.                                             *)
ServerConnection(c) ==
    /\ sockets[c].state = "none"
    /\ sockets' = [sockets EXCEPT ![c].state = "open"]
    /\ UNCHANGED <<serverBuffer, parses>>

(* Lines 31-37: the "data" handler. *)
SocketData(c) ==
    /\ sockets[c].state = "open"
    /\ Len(sockets[c].received) < MaxChunks
    /\ LET d == Chunk(c, Len(sockets[c].received) + 1)
       IN  /\ serverBuffer' = IF serverBuffer = << >>
                              THEN <<d>>
                              ELSE <<serverBuffer[1] \o d>>
           /\ sockets' = [sockets EXCEPT ![c].received = Append(@, d)]
    /\ UNCHANGED parses

(* Lines 39-54: the "end" handler.  `json` tells whether JSON.parse        *)
(* accepts the text; when it throws, the error is caught and nothing is    *)
(* notified.                                                               *)
SocketEnd(c, json) ==
    /\ sockets[c].state = "open"
    /\ sockets' = [sockets EXCEPT ![c].state = "ended"]
    /\ IF serverBuffer = << >>
       THEN UNCHANGED <<serverBuffer, parses>>
       ELSE /\ parses' = Append(parses, [socket |-> c, text |-> serverBuffer[1],
                                          notified |-> json])
            /\ serverBuffer' = << >>

(***************************************************************************)
(* Specifications.                                                         *)
(***************************************************************************)
GeoInit == GeoStart /\ Int64Idle /\ MagicIdle /\ LoaderIdle /\ DiscoverIdle /\ ImportIdle /\ PairIdle /\ ReadIdle /\ ServerIdle

GeoNext ==
    \/ \E entry \in CornerValues :
          GenBuffersVisit(entry) /\ UNCHANGED <<int64Vars, magicVars, loaderVars, discoverVars, importVars, pairVars, readVars, serverVars>>
    \/ GenBuffersReturn /\ UNCHANGED <<int64Vars, magicVars, loaderVars, discoverVars, importVars, pairVars, readVars, serverVars>>

SpecGeo == GeoInit /\ [][GeoNext]_vars

Int64Init == Int64Start /\ GeoIdle /\ MagicIdle /\ LoaderIdle /\ DiscoverIdle /\ ImportIdle /\ PairIdle /\ ReadIdle /\ ServerIdle

Int64Next == ReadInt64Call /\ UNCHANGED <<geoVars, magicVars, loaderVars, discoverVars, importVars, pairVars, readVars, serverVars>>

SpecInt64 == Int64Init /\ [][Int64Next]_vars

MagicInit == MagicStart /\ GeoIdle /\ Int64Idle /\ LoaderIdle /\ DiscoverIdle /\ ImportIdle /\ PairIdle /\ ReadIdle /\ ServerIdle

MagicNext ==
    \/ IsValidFBXCall /\ UNCHANGED <<geoVars, int64Vars, loaderVars, discoverVars, importVars, pairVars, readVars, serverVars>>
    \/ CreateMeshesSkip /\ UNCHANGED <<geoVars, int64Vars, loaderVars, discoverVars, importVars, pairVars, readVars, serverVars>>
    \/ CreateMeshesLoad /\ UNCHANGED <<geoVars, int64Vars, loaderVars, discoverVars, importVars, pairVars, readVars, serverVars>>

SpecMagic == MagicInit /\ [][MagicNext]_vars

LoaderInit == LoaderStart /\ GeoIdle /\ Int64Idle /\ MagicIdle /\ DiscoverIdle /\ ImportIdle /\ PairIdle /\ ReadIdle /\ ServerIdle

LoaderNext ==
    \/ \E distance \in EndDistances(profile) \cup {0},
          numProperties \in PropertyCounts(profile),
          name \in Names(profile) \cup {""} :
          /\ InProfile(distance, name)
          /\ ParseNodeHeader(distance, numProperties, name)
          /\ UNCHANGED <<geoVars, int64Vars, magicVars, discoverVars, importVars, pairVars, readVars, serverVars>>
    \/ \E c \in Properties(profile) :
          ParseNodeProperty(c) /\ UNCHANGED <<geoVars, int64Vars, magicVars, discoverVars, importVars, pairVars, readVars, serverVars>>
    \/ ParseNodeCreate /\ UNCHANGED <<geoVars, int64Vars, magicVars, discoverVars, importVars, pairVars, readVars, serverVars>>
    \/ ParseNodeReturn /\ UNCHANGED <<geoVars, int64Vars, magicVars, discoverVars, importVars, pairVars, readVars, serverVars>>
    \/ ParseFinish /\ UNCHANGED <<geoVars, int64Vars, magicVars, discoverVars, importVars, pairVars, readVars, serverVars>>

SpecLoader == LoaderInit /\ [][LoaderNext]_vars

(* parse() is sequential code that runs to its end: a step that can be     *)
(* taken is taken.                                                         *)
SpecLoaderLive == SpecLoader /\ WF_vars(LoaderNext)

StreamInit == StreamStart /\ GeoIdle /\ Int64Idle /\ MagicIdle /\ DiscoverIdle /\ ImportIdle /\ PairIdle /\ ReadIdle /\ ServerIdle

StreamNext ==
    \/ \E amount \in 0..MaxLength :
          StreamSkip(amount) /\ UNCHANGED <<geoVars, int64Vars, magicVars, discoverVars, importVars, pairVars, readVars, serverVars>>
    \/ \E width \in PrimitiveWidths :
          StreamReadPrimitive(width) /\ UNCHANGED <<geoVars, int64Vars, magicVars, discoverVars, importVars, pairVars, readVars, serverVars>>
    \/ StreamReadTwoWords /\ UNCHANGED <<geoVars, int64Vars, magicVars, discoverVars, importVars, pairVars, readVars, serverVars>>
    \/ \E length \in 0..MaxLength :
          StreamReadString(length) /\ UNCHANGED <<geoVars, int64Vars, magicVars, discoverVars, importVars, pairVars, readVars, serverVars>>
    \/ \E length \in 0..MaxLength :
          StreamReadArrayBuffer(length) /\ UNCHANGED <<geoVars, int64Vars, magicVars, discoverVars, importVars, pairVars, readVars, serverVars>>

SpecStream == StreamInit /\ [][StreamNext]_vars

ReadInit ==
    /\ ReadStart /\ GeoIdle /\ Int64Idle /\ MagicIdle /\ LoaderIdle /\ DiscoverIdle
    /\ ImportIdle /\ PairIdle
    /\ ServerIdle

ReadOthersUnchanged ==
    UNCHANGED <<geoVars, int64Vars, magicVars, loaderVars, discoverVars, importVars,
                pairVars, serverVars>>

ReadNext ==
    \/ \E op \in FixedReads : ReadFixed(op) /\ ReadOthersUnchanged
    \/ \E op \in {"readUint64", "readInt64"}, low_ \in SampleWords, high_ \in SampleWords :
          ReadTwoWords(op, low_, high_) /\ ReadOthersUnchanged
    \/ \E op \in ArrayReads, count \in 0..MaxCount :
          ReadArray(op, count) /\ ReadOthersUnchanged
    \/ \E count \in 0..1, low_ \in SampleWords, high_ \in SampleWords :
          ReadInt64Array(count, [k \in 1..count |-> <<low_, high_>>]) /\ ReadOthersUnchanged
    \/ \E op \in {"readString", "readArrayBuffer"}, length \in 0..MaxLength :
          ReadBytes(op, length) /\ ReadOthersUnchanged

SpecRead == ReadInit /\ [][ReadNext]_vars

ServerInit ==
    /\ ServerStart /\ GeoIdle /\ Int64Idle /\ MagicIdle /\ LoaderIdle /\ DiscoverIdle
    /\ ImportIdle /\ PairIdle /\ ReadIdle

ServerOthersUnchanged ==
    UNCHANGED <<geoVars, int64Vars, magicVars, loaderVars, discoverVars, importVars,
                pairVars, readVars>>

ServerNext ==
    \/ \E c \in Sockets : ServerConnection(c) /\ ServerOthersUnchanged
    \/ \E c \in Sockets : SocketData(c) /\ ServerOthersUnchanged
    \/ \E c \in Sockets, json \in BOOLEAN : SocketEnd(c, json) /\ ServerOthersUnchanged

SpecServer == ServerInit /\ [][ServerNext]_vars

DiscoverInit == DiscoverStart /\ GeoIdle /\ Int64Idle /\ MagicIdle /\ LoaderIdle /\ ImportIdle /\ PairIdle /\ ReadIdle /\ ServerIdle

DiscoverNext ==
    \/ GeometryParse /\ UNCHANGED <<geoVars, int64Vars, magicVars, loaderVars, importVars, pairVars, readVars, serverVars>>
    \/ RecursivelyParseVisit /\ UNCHANGED <<geoVars, int64Vars, magicVars, loaderVars, importVars, pairVars, readVars, serverVars>>
    \/ RecursivelyParseReturn /\ UNCHANGED <<geoVars, int64Vars, magicVars, loaderVars, importVars, pairVars, readVars, serverVars>>

SpecDiscover == DiscoverInit /\ [][DiscoverNext]_vars

PairInit ==
    /\ PairStart /\ GeoIdle /\ Int64Idle /\ MagicIdle /\ DiscoverIdle /\ ImportIdle
    /\ ReadIdle
    /\ ServerIdle

PairOthersUnchanged ==
    UNCHANGED <<geoVars, int64Vars, magicVars, discoverVars, importVars, readVars, serverVars>>

PairNext ==
    \/ \E distance \in EndDistances(profile) \cup {0},
          numProperties \in PropertyCounts(profile),
          name \in Names(profile) \cup {""} :
          /\ InProfile(distance, name)
          /\ PairParseNodeHeader(distance, numProperties, name)
          /\ PairOthersUnchanged
    \/ \E c \in Properties(profile) : PairParseNodeProperty(c) /\ PairOthersUnchanged
    \/ ParseNodeCreate /\ UNCHANGED pairVars /\ PairOthersUnchanged
    \/ ParseNodeReturn /\ UNCHANGED pairVars /\ PairOthersUnchanged
    \/ ParseFinish /\ UNCHANGED pairVars /\ PairOthersUnchanged
    \/ PairSwitch /\ PairOthersUnchanged

SpecPair == PairInit /\ [][PairNext]_vars

ImportInit ==
    /\ ImportStart /\ GeoIdle /\ Int64Idle /\ MagicIdle /\ LoaderIdle /\ DiscoverIdle
    /\ PairIdle
    /\ ReadIdle
    /\ ServerIdle

ImportOthersUnchanged ==
    UNCHANGED <<geoVars, int64Vars, magicVars, loaderVars, discoverVars, pairVars, readVars, serverVars>>

(* The steps of call i and of the callbacks it started. *)
ImportStep(i) ==
    \/ ImportAssetsSleep(i) /\ ImportOthersUnchanged
    \/ ImportAssetsWake(i) /\ ImportOthersUnchanged
    \/ ImportAssetsEnqueue(i) /\ ImportOthersUnchanged
    \/ ImportAssetsHandle(i) /\ ImportOthersUnchanged
    \/ \E a \in AssetsOf(i), l \in LodFiles, outcome \in LodOutcomes :
          CreateMeshesLod(a, l, outcome) /\ ImportOthersUnchanged
    \/ ImportAssetsReject(i) /\ ImportOthersUnchanged
    \/ ImportAssetsHandled(i) /\ ImportOthersUnchanged
    \/ ImportAssetsDone(i) /\ ImportOthersUnchanged

ImportNext ==
    \/ \E i \in Imports, count \in ExportCounts, addToScene \in BOOLEAN :
          ImportAssetsCall(i, count, addToScene) /\ ImportOthersUnchanged
    \/ \E i \in Imports : ImportStep(i)

(* Timers fire and promises settle: a step of a call that stays possible   *)
(* is taken.  Whether importAssets is called at all is left open.          *)
SpecImport ==
    ImportInit /\ [][ImportNext]_vars /\ \A i \in Imports : WF_vars(ImportStep(i))

(***************************************************************************)
(* Properties of the Geometry Reconstructor.                               *)
(***************************************************************************)

(* The terminated polygons of the entries `s`, each the sequence of its    *)
(* corners: the decoded control point `vi`, the position `pvi` of the      *)
(* entry in the array and the number `poly` of the polygon.                *)
RECURSIVE SplitFaces(_, _, _, _)
SplitFaces(s, k, cur, p) ==
    IF k > Len(s) THEN << >>
    ELSE LET c == [vi |-> DecodeVertexIndex(s[k]), pvi |-> k - 1, poly |-> p]
         IN  IF s[k] < 0
             THEN <<Append(cur, c)>> \o SplitFaces(s, k + 1, << >>, p + 1)
             ELSE SplitFaces(s, k + 1, Append(cur, c), p)

TerminatedFaces == SplitFaces(vertexIndices, 1, << >>, 0)

(* The fan of a face, one corner per output vertex: corners 0, i, i-1 of   *)
(* each triangle when `swapped`, corners 0, i-1, i otherwise.              *)
RECURSIVE FanFrom(_, _, _)
FanFrom(face, i, swapped) ==
    IF i >= Len(face) THEN << >>
    ELSE (IF swapped THEN <<face[1], face[i + 1], face[i]>>
                     ELSE <<face[1], face[i], face[i + 1]>>)
         \o FanFrom(face, i + 1, swapped)

RECURSIVE Fans(_, _)
Fans(faces, swapped) ==
    IF faces = << >> THEN << >>
    ELSE FanFrom(Head(faces), 2, swapped) \o Fans(Tail(faces), swapped)

(* Component j (0, 1, 2) of the control point of corner c. *)
ControlPoint(c, j) == At(geoInfo.vertexPositions, c.vi * 3 + j)

(* What the per-corner lookup returned for corner c, as the forEach        *)
(* callback stores it in the per-face buffers.                             *)
CornerNormal(c) ==
    LET data == GetData(c.pvi, c.poly, c.vi, geoInfo.normal[1])
    IN  <<At(data, 0), At(data, 1), At(data, 2)>>
CornerUV(c) ==
    LET data == GetData(c.pvi, c.poly, c.vi, geoInfo.uv[1])
    IN  <<At(data, 0), At(data, 1)>>
CornerColor(c) ==
    LET data == GetData(c.pvi, c.poly, c.vi, geoInfo.colors[1])
    IN  <<At(data, 0), At(data, 1), At(data, 2), Coalesce(At(data, 3), 1)>>

(* C1, as claimed: every terminated polygon of n >= 3 corners yields, for  *)
(* i = 2 .. n-1, the output vertices corner 0, corner i, corner i-1, each  *)
(* position written as the (x, y, z) of its control point.                 *)
C1_FanSwappedXYZ ==
    LET cs == Fans(TerminatedFaces, TRUE)
    IN  /\ Len(buffers.vertex) = 3 * Len(cs)
        /\ \A k \in 1..Len(cs) :
              /\ buffers.vertex[3 * k - 2] = ControlPoint(cs[k], 0)
              /\ buffers.vertex[3 * k - 1] = ControlPoint(cs[k], 1)
              /\ buffers.vertex[3 * k] = ControlPoint(cs[k], 2)

(* C1, amended: every terminated polygon of n >= 3 corners yields, for     *)
(* i = 2 .. n-1, the output vertices corner 0, corner i-1, corner i, each  *)
(* position written as the (x, z, y) of its control point; the quad        *)
(* [0,1,3,-3] yields 6 vertices starting pos0, pos1, pos3, pos0.           *)
C1_FanScanOrderXZY ==
    LET cs == Fans(TerminatedFaces, FALSE)
    IN  /\ Len(buffers.vertex) = 3 * Len(cs)
        /\ \A k \in 1..Len(cs) :
              /\ buffers.vertex[3 * k - 2] = ControlPoint(cs[k], 0)
              /\ buffers.vertex[3 * k - 1] = ControlPoint(cs[k], 2)
              /\ buffers.vertex[3 * k] = ControlPoint(cs[k], 1)
        /\ vertexIndices = <<0, 1, 3, 0 - 3>> =>
              buffers.vertex = <<100, 102, 101, 103, 105, 104, 109, 111, 110,
                                 100, 102, 101, 109, 111, 110, 106, 108, 107>>

(* C1 witness: the quad [0,1,3,-3] has been triangulated. *)
C1_QuadTriangulated ==
    /\ vertexIndices = <<0, 1, 3, 0 - 3>>
    /\ Len(buffers.vertex) = 18

(* C4, as claimed: the normal, the UV and the colour written at output     *)
(* slot k are those the lookup returned for the corner whose position is   *)
(* written at slot k (the normal in the component order of the position).  *)
C4_AttributesAligned ==
    LET cs == Fans(TerminatedFaces, FALSE)
    IN  \A k \in 1..Len(cs) :
           /\ geoInfo.normal # << >> =>
                 /\ Len(buffers.normal) >= 3 * k
                 /\ <<buffers.normal[3 * k - 2], buffers.normal[3 * k],
                      buffers.normal[3 * k - 1]>> = CornerNormal(cs[k])
           /\ geoInfo.uv # << >> =>
                 /\ Len(buffers.uvs) >= 2 * k
                 /\ <<buffers.uvs[2 * k - 1], buffers.uvs[2 * k]>> = CornerUV(cs[k])
           /\ geoInfo.colors # << >> =>
                 /\ Len(buffers.colors) >= 4 * k
                 /\ <<buffers.colors[4 * k - 3], buffers.colors[4 * k - 2],
                      buffers.colors[4 * k - 1], buffers.colors[4 * k]>>
                        = CornerColor(cs[k])

(* Attribute vector p of a block, as the callback pushes it: `width`       *)
(* components, a missing fourth one replaced by `fill`.                    *)
AttributeVector(block, p, width, fill) ==
    [j \in 1..width |->
        IF j = 4 THEN Coalesce(At(block.buffer, p * block.dataSize + j - 1), fill)
        ELSE At(block.buffer, p * block.dataSize + j - 1)]

(* The number of terminator entries of s. *)
RECURSIVE Terminators(_)
Terminators(s) ==
    IF s = << >> THEN 0
    ELSE (IF Head(s) < 0 THEN 1 ELSE 0) + Terminators(Tail(s))

(* `width` components per corner, vector p for each of n corners. *)
RECURSIVE Repeated(_, _)
Repeated(v, n) == IF n = 0 THEN << >> ELSE v \o Repeated(v, n - 1)

ByPolygonDirect(block) ==
    /\ block # << >>
    /\ block[1].mappingType = "ByPolygon"
    /\ block[1].referenceType = "Direct"

(* C20: with "ByPolygon" and "Direct", the polygon counter is the number   *)
(* of terminator entries visited, faces of fewer than 3 corners included;  *)
(* every corner of the open polygon p has been given vector p of the       *)
(* normal, UV and colour blocks; and every output vertex of a terminated   *)
(* polygon p carries normal p (written x, z, y) and UV p.                  *)
C20_ByPolygonDirect ==
    LET cs == Fans(TerminatedFaces, FALSE)
    IN  /\ polygonIndex = Terminators(vertexIndices)
        /\ ByPolygonDirect(geoInfo.normal) =>
              /\ faceNormals = Repeated(AttributeVector(geoInfo.normal[1], polygonIndex, 3, Undef),
                                        faceLength)
              /\ Len(buffers.normal) = 3 * Len(cs)
              /\ \A k \in 1..Len(cs) :
                    <<buffers.normal[3 * k - 2], buffers.normal[3 * k],
                      buffers.normal[3 * k - 1]>>
                        = AttributeVector(geoInfo.normal[1], cs[k].poly, 3, Undef)
        /\ ByPolygonDirect(geoInfo.uv) =>
              /\ faceUVs = Repeated(AttributeVector(geoInfo.uv[1], polygonIndex, 2, Undef),
                                    faceLength)
              /\ Len(buffers.uvs) = 2 * Len(cs)
              /\ \A k \in 1..Len(cs) :
                    <<buffers.uvs[2 * k - 1], buffers.uvs[2 * k]>>
                        = AttributeVector(geoInfo.uv[1], cs[k].poly, 2, Undef)
        /\ ByPolygonDirect(geoInfo.colors) =>
              faceColors = Repeated(AttributeVector(geoInfo.colors[1], polygonIndex, 4, 1),
                                    faceLength)

(* A face of two corners, then a triangle whose three output vertices      *)
(* carry normal 1 and UV 1.                                                *)
C20_TriangleAfterShortFace ==
    /\ ByPolygonDirect(geoInfo.normal)
    /\ vertexIndices = <<0, 0 - 1, 3, 1, 0 - 3>>
    /\ polygonIndex = 2
    /\ buffers.normal = <<203, 205, 204, 203, 205, 204, 203, 205, 204>>
    /\ buffers.uvs = <<302, 303, 302, 303, 302, 303>>

(* The corners of the open polygon: the entries after the last terminator. *)
RECURSIVE OpenFace(_, _, _, _)
OpenFace(s, k, cur, p) ==
    IF k > Len(s) THEN cur
    ELSE LET c == [vi |-> DecodeVertexIndex(s[k]), pvi |-> k - 1, poly |-> p]
         IN  IF s[k] < 0 THEN OpenFace(s, k + 1, << >>, p + 1)
             ELSE OpenFace(s, k + 1, Append(cur, c), p)

OpenCorners == OpenFace(vertexIndices, 1, << >>, 0)

(* The reference lookup: the index of corner c in a block with one of the  *)
(* four mapping types, undefined where indices has no such entry.          *)
ReferenceIndex(block, c) ==
    LET base == IF block.mappingType = "ByPolygonVertex" THEN c.pvi
                ELSE IF block.mappingType = "ByPolygon" THEN c.poly
                ELSE IF block.mappingType = "ByVertice" THEN c.vi
                ELSE IF Len(block.indices) > 0 THEN block.indices[1] ELSE Undef
    IN  IF block.referenceType = "IndexToDirect"
        THEN (IF base # Undef /\ base < Len(block.indices)
              THEN block.indices[base + 1] ELSE Undef)
        ELSE base

(* Component j of the reference lookup: buffer[index * dataSize + j],      *)
(* undefined where the index is undefined or the buffer has no such entry. *)
ReferenceComponent(block, c, j) ==
    LET index == ReferenceIndex(block, c)
    IN  IF index = Undef \/ index * block.dataSize + j >= Len(block.buffer)
        THEN Undef
        ELSE block.buffer[index * block.dataSize + j + 1]

ReferenceVector(block, c) ==
    [j \in 1..block.dataSize |-> ReferenceComponent(block, c, j - 1)]

RECURSIVE ReferenceVectors(_, _, _)
ReferenceVectors(block, cs, width) ==
    IF cs = << >> THEN << >>
    ELSE [j \in 1..width |-> ReferenceComponent(block, Head(cs), j - 1)]
         \o ReferenceVectors(block, Tail(cs), width)

KnownMapping(block) ==
    /\ block # << >>
    /\ block[1].mappingType \in {"ByPolygonVertex", "ByPolygon", "ByVertice", "AllSame"}

(* C21: for a block with one of the four mapping types, the components     *)
(* the callback took from _getData for the corners of the open polygon,    *)
(* and the normals and UVs written for the terminated ones, are those of   *)
(* the reference lookup; where the index is a number, _getData returns     *)
(* exactly the dataSize components buffer[index*dataSize ..].              *)
C21_LookupIsReference ==
    LET cs == Fans(TerminatedFaces, FALSE)
    IN  /\ KnownMapping(geoInfo.normal) =>
              /\ faceNormals = ReferenceVectors(geoInfo.normal[1], OpenCorners, 3)
              /\ \A k \in 1..Len(cs) :
                    <<buffers.normal[3 * k - 2], buffers.normal[3 * k],
                      buffers.normal[3 * k - 1]>>
                        = ReferenceVector(geoInfo.normal[1], cs[k])
        /\ KnownMapping(geoInfo.uv) =>
              /\ faceUVs = ReferenceVectors(geoInfo.uv[1], OpenCorners, 2)
              /\ \A k \in 1..Len(cs) :
                    <<buffers.uvs[2 * k - 1], buffers.uvs[2 * k]>>
                        = ReferenceVector(geoInfo.uv[1], cs[k])
        /\ KnownMapping(geoInfo.colors) =>
              \A k \in 1..Len(OpenCorners) :
                 /\ SubSeq(faceColors, 4 * k - 3, 4 * k - 1)
                       = ReferenceVectors(geoInfo.colors[1], <<OpenCorners[k]>>, 3)
                 /\ faceColors[4 * k]
                       = Coalesce(ReferenceComponent(geoInfo.colors[1], OpenCorners[k], 3), 1)
        /\ \A name \in {"normal", "uv", "colors"} : \A k \in 1..Len(OpenCorners) :
              (KnownMapping(geoInfo[name])
                 /\ ReferenceIndex(geoInfo[name][1], OpenCorners[k]) # Undef) =>
                    GetData(OpenCorners[k].pvi, OpenCorners[k].poly, OpenCorners[k].vi,
                            geoInfo[name][1])
                        = ReferenceVector(geoInfo[name][1], OpenCorners[k])

(* Two corners of control points 3 and 1 looked up by control point        *)
(* through the indices <<2, 0, 3, 1>>: normals 1 and 0.                    *)
C21_IndexedByVertice ==
    /\ geoInfo.normal # << >>
    /\ geoInfo.normal[1].mappingType = "ByVertice"
    /\ geoInfo.normal[1].referenceType = "IndexToDirect"
    /\ vertexIndices = <<3, 1>>
    /\ faceNormals = <<203, 204, 205, 200, 201, 202>>

(* The block with a mapping type that is none of the four turned into     *)
(* "ByPolygonVertex" and a reference type other than "IndexToDirect"       *)
(* turned into "Direct".                                                   *)
Defaulted(block) ==
    [block EXCEPT
        !.mappingType = IF @ \in {"ByPolygonVertex", "ByPolygon", "ByVertice", "AllSame"}
                        THEN @ ELSE "ByPolygonVertex",
        !.referenceType = IF @ = "IndexToDirect" THEN @ ELSE "Direct"]

Malformed(block) ==
    /\ block # << >>
    /\ \/ block[1].mappingType \notin {"ByPolygonVertex", "ByPolygon", "ByVertice", "AllSame"}
       \/ block[1].referenceType \notin {"Direct", "IndexToDirect"}

(* C22: a block with a malformed mapping or reference type gives the       *)
(* per-face buffers and the normals and UVs of the same block with         *)
(* "ByPolygonVertex", respectively "Direct", in its place, and the record  *)
(* is produced once the array is exhausted.                                *)
C22_MalformedTypesDefault ==
    LET cs == Fans(TerminatedFaces, FALSE)
    IN  /\ Malformed(geoInfo.normal) =>
              /\ faceNormals = ReferenceVectors(Defaulted(geoInfo.normal[1]), OpenCorners, 3)
              /\ Len(buffers.normal) = 3 * Len(cs)
              /\ \A k \in 1..Len(cs) :
                    <<buffers.normal[3 * k - 2], buffers.normal[3 * k],
                      buffers.normal[3 * k - 1]>>
                        = ReferenceVector(Defaulted(geoInfo.normal[1]), cs[k])
        /\ Malformed(geoInfo.uv) =>
              /\ faceUVs = ReferenceVectors(Defaulted(geoInfo.uv[1]), OpenCorners, 2)
              /\ Len(buffers.uvs) = 2 * Len(cs)
              /\ \A k \in 1..Len(cs) :
                    <<buffers.uvs[2 * k - 1], buffers.uvs[2 * k]>>
                        = ReferenceVector(Defaulted(geoInfo.uv[1]), cs[k])
        /\ Malformed(geoInfo.colors) =>
              \A k \in 1..Len(OpenCorners) :
                 /\ SubSeq(faceColors, 4 * k - 3, 4 * k - 1)
                       = ReferenceVectors(Defaulted(geoInfo.colors[1]), <<OpenCorners[k]>>, 3)
                 /\ faceColors[4 * k]
                       = Coalesce(ReferenceComponent(Defaulted(geoInfo.colors[1]),
                                                     OpenCorners[k], 3), 1)
        /\ (gpc = "returned" /\ Malformed(geoInfo.uv)) =>
              /\ genGeometry # << >>
              /\ genGeometry[1].normals = buffers.normal
              /\ genGeometry[1].uvs = buffers.uvs
              /\ genGeometry[1].indices = buffers.index

(* A triangle of a block with unknown mapping and reference types: the     *)
(* record holds normals 0, 1 and 2, those of the entries' positions.       *)
C22_UnknownTypesRecord ==
    /\ geoInfo.normal # << >>
    /\ geoInfo.normal[1].mappingType = "Unknown"
    /\ geoInfo.normal[1].referenceType = "Unknown"
    /\ vertexIndices = <<3, 1, 0 - 1>>
    /\ gpc = "returned"
    /\ genGeometry # << >>
    /\ genGeometry[1].normals = <<200, 202, 201, 203, 205, 204, 206, 208, 207>>

(* C7: after every processed entry, indices.length is a multiple of 3,     *)
(* positions.length = 3 * indices.length, and a present normal / UV /      *)
(* colour block has 3 / 2 / 4 components per index.                        *)
C7_BufferLengths ==
    /\ Len(buffers.index) % 3 = 0
    /\ Len(buffers.vertex) = 3 * Len(buffers.index)
    /\ geoInfo.normal # << >> => Len(buffers.normal) = 3 * Len(buffers.index)
    /\ geoInfo.uv # << >> => Len(buffers.uvs) = 2 * Len(buffers.index)
    /\ geoInfo.colors # << >> => Len(buffers.colors) = 4 * Len(buffers.index)

(* C7 witness: a quad with all three blocks has been emitted and the loop  *)
(* is still running.                                                       *)
C7_QuadWithAllBlocks ==
    /\ gpc = "loop"
    /\ Len(buffers.index) = 6
    /\ geoInfo.normal # << >> /\ geoInfo.uv # << >> /\ geoInfo.colors # << >>
    /\ Len(buffers.colors) = 24

(* Sum over the faces of max(0, cornerCount - 2). *)
RECURSIVE TriangleCount(_)
TriangleCount(faces) ==
    IF faces = << >> THEN 0
    ELSE (IF Len(Head(faces)) > 2 THEN Len(Head(faces)) - 2 ELSE 0)
         + TriangleCount(Tail(faces))

(* C8: the index buffer is 0, 1, ..., N-1 with N = 3 * (sum over the       *)
(* terminated polygons of max(0, cornerCount - 2)).                        *)
C8_IndexIdentity ==
    /\ Len(buffers.index) = 3 * TriangleCount(TerminatedFaces)
    /\ \A k \in 1..Len(buffers.index) : buffers.index[k] = k - 1

(* C8 witness: a two-corner face, which emits nothing, then a triangle.    *)
C8_ShortFaceThenTriangle ==
    /\ Len(TerminatedFaces) = 2
    /\ Len(TerminatedFaces[1]) = 2
    /\ buffers.index = <<0, 1, 2>>

(***************************************************************************)
(* Properties of FBXStream.readInt64.                                      *)
(***************************************************************************)

(* The two's-complement value of the double word (low_, high_). *)
SignedValue(low_, high_) ==
    IF high_ >= SignBit
    THEN high_ * WordBase + low_ - WordBase * WordBase
    ELSE high_ * WordBase + low_

(* C5, as claimed: readInt64 returns the exact signed value of every       *)
(* double word, high * 2^w + low - 2^(2w) when the sign bit of the high    *)
(* word is set.                                                            *)
C5_ReadInt64Exact ==
    ipc = "returned" => int64 = SignedValue(low, high)

(***************************************************************************)
(* Properties of FBXLoader.IsValidFBX.                                     *)
(***************************************************************************)

(* The first 21 bytes of the file are the magic, byte for byte. *)
HasMagicPrefix(buffer) ==
    /\ Len(buffer) >= Len(Magic)
    /\ \A j \in 1..Len(Magic) : buffer[j] = Magic[j]

(* C6, as claimed: IsValidFBX returns true exactly when the buffer is at   *)
(* least as long as the magic and starts with it, so that the caller skips *)
(* the other files and loads these.                                        *)
C6_ValidIffMagicPrefix ==
    /\ mpc \in {"tested", "skipped", "loading"} => (isValid <=> HasMagicPrefix(content))
    /\ mpc = "skipped" => ~HasMagicPrefix(content)
    /\ mpc = "loading" => HasMagicPrefix(content)

(***************************************************************************)
(* FBXLoader: properties.                                                  *)
(***************************************************************************)

(* parse() has left its loop: the content ended with no activation left. *)
ContentEnded == lpc \in {"returned", "thrown"} /\ stack = << >> /\ IsEndOfContent(pos)

FirstProperty(c) == ListAt(GetKey(c, "propertyList").l, 0)

(* A child that is neither collapsed nor handled by its name, and whose    *)
(* first property, its id, is a number.                                    *)
IndexedChild(name, c) ==
    /\ GetKey(c, "singleProperty") = Bool(FALSE)
    /\ GetKey(c, "name").k = "string"
    /\ GetKey(c, "name").s \notin {"PoseNode", "Properties70"}
    /\ ~(name = "Connections" /\ GetKey(c, "name").s = "C")
    /\ ~(name = "Properties70" /\ GetKey(c, "name").s = "P")
    /\ FirstProperty(c).k = "number"

(* The first of the children merged so far that has the name and id of c. *)
FirstSibling(merged, c) ==
    LET same == {i \in 1..Len(merged) :
                    /\ GetKey(merged[i], "name") = GetKey(c, "name")
                    /\ FirstProperty(merged[i]) = FirstProperty(c)}
    IN  merged[CHOOSE i \in same : \A j \in same : i <= j]

(* C2: in a record whose children so far are all indexed ones, each child  *)
(* is found at parent[tag][id] unless an earlier sibling of the same tag   *)
(* had its id, in which case that earlier sibling is found there.          *)
C2_FirstWriterWins ==
    \A k \in 1..Len(stack) :
        LET f == stack[k]
        IN  (\A j \in 1..Len(f.merged) : IndexedChild(f.name, f.merged[j]))
            => \A j \in 1..Len(f.merged) :
                  LET c == f.merged[j]
                  IN  GetProperty(GetKey(f.node, GetKey(c, "name").s),
                                  NumberToString(FirstProperty(c).n))
                      = Obj(FirstSibling(f.merged, c))

(* C3: when the content has ended and the top level holds no "Objects", or *)
(* an "Objects" with no "Geometry", parse() has returned null.             *)
C3_MissingGeometryReturnsNull ==
    (/\ ContentEnded
     /\ \/ GetKey(nodes, "Objects") = Undefined
        \/ GetProperty(GetKey(nodes, "Objects"), "Geometry") = Undefined)
    => (lpc = "returned" /\ result = "null" /\ error = "")

(* C24, as claimed: when the content has ended and the top level holds an  *)
(* "Objects" with a "Geometry" child, parse() has handed the child-map and *)
(* the connections to the reconstructor and has returned its records.      *)
C24_GeometryHandedToReconstructor ==
    (/\ ContentEnded
     /\ GetKey(nodes, "Objects") # Undefined
     /\ Truthy(GetProperty(GetKey(nodes, "Objects"), "Geometry")))
    => (lpc = "returned" /\ result = "geometries" /\ error = "")

(* C25: the loader starts with its cursor at 27, past the version; the     *)
(* version never changes; and every header read moves the cursor by 13     *)
(* bytes plus the length of the name when version < 7500 and by 25 bytes   *)
(* plus the length of the name when version >= 7500.                       *)
C25_HeaderWidthByVersion ==
    /\ pos = 27
    /\ [][/\ version' = version
          /\ (RecordExpected /\ lpc' = "parsing") =>
                LET nameLength == IF Len(stack') > Len(stack)
                                  THEN StringLength(stack'[Len(stack')].name)
                                  ELSE 0
                IN  pos' = pos + (IF version < 7500 THEN 13 ELSE 25) + nameLength]_vars

(* A version-7500 file whose first record, "Objects", was read with 64-bit *)
(* fields: the cursor is at 27 + 25 + 7.                                   *)
C25_WideHeaderRead ==
    /\ version = 7500
    /\ Len(stack) = 1
    /\ stack[1].name = "Objects"
    /\ stack[1].phase = "properties"
    /\ stack[1].propertyList = << >>
    /\ pos = 59

(* C26: a record whose endOffset is 0 never becomes an activation, so it   *)
(* reads no property and no child; reading it moves the cursor past its    *)
(* header and name only, raises no error and leaves the node of its        *)
(* parent, the children merged into it and the top-level mapping as they   *)
(* were.                                                                   *)
C26_NullRecordIsTerminator ==
    /\ [](\A k \in 1..Len(stack) : stack[k].endOffset # 0)
    /\ [][(RecordExpected /\ lpc' = "parsing" /\ Len(stack') = Len(stack)) =>
             /\ pos' = pos + (IF version < 7500 THEN 13 ELSE 25)
             /\ nodes' = nodes
             /\ error' = error
             /\ result' = result
             /\ \A k \in 1..Len(stack) :
                   /\ stack'[k].node = stack[k].node
                   /\ stack'[k].merged = stack[k].merged
                   /\ stack'[k].propertyList = stack[k].propertyList
                   /\ stack'[k].decoded = stack[k].decoded]_vars

(* A record with one child read, a null record: nothing was merged and the *)
(* node holds only its flag.                                               *)
C26_NullChildRead ==
    /\ Len(stack) = 1
    /\ stack[1].phase = "children"
    /\ stack[1].records = 1
    /\ stack[1].merged = << >>
    /\ pos = stack[1].propertiesEnd + 13
    /\ stack[1].endOffset > pos

(* The children of a "Connections" record that give a tuple: those named   *)
(* "C" that are not single-property.                                       *)
RECURSIVE ConnectionChildren(_)
ConnectionChildren(merged) ==
    IF merged = << >> THEN << >>
    ELSE (IF /\ GetKey(Head(merged), "name") = Str("C")
             /\ GetKey(Head(merged), "singleProperty") # Bool(TRUE)
          THEN <<Head(merged)>> ELSE << >>)
         \o ConnectionChildren(Tail(merged))

(* The property list of a child without its first element. *)
TupleOf(c) ==
    LET pl == GetKey(c, "propertyList").l
    IN  List(IF pl = << >> THEN << >> ELSE Tail(pl))

(* C27: the node of every "Connections" record being read holds, under     *)
(* `connections`, one tuple per such child merged so far, in their order,  *)
(* each the property list of the child without its first element, and no   *)
(* `connections` before the first one; and the node a top-level            *)
(* "Connections" record returns holds these tuples.                        *)
C27_ConnectionsTuples ==
    /\ [](\A k \in 1..Len(stack) :
            stack[k].name = "Connections" =>
               LET cs == ConnectionChildren(stack[k].merged)
               IN  GetKey(stack[k].node, "connections") =
                      IF cs = << >> THEN Undefined
                      ELSE List([j \in 1..Len(cs) |-> TupleOf(cs[j])]))
    /\ [][(/\ Len(stack) = 1 /\ stack' = << >>
           /\ stack[1].name = "Connections"
           /\ lpc' = "parsing") =>
             GetKey(GetKey(nodes', "Connections").o, "connections")
                = GetKey(stack[1].node, "connections")]_vars

(* A top-level "Connections" record has returned with the tuples of its    *)
(* two children, each of two properties.                                   *)
C27_TwoConnections ==
    /\ stack = << >>
    /\ "Connections" \in DOMAIN nodes
    /\ GetKey(nodes["Connections"].o, "connections")
          = List(<<List(<<Num(1)>>), List(<<Num(1)>>)>>)
    /\ pos = HeaderSize + 72

(* C9: a record is flagged single-property exactly when it has one         *)
(* property and the cursor after that property is its endOffset, and then  *)
(* it reads no child; once such a child is merged, the parent holds the    *)
(* property under the name of the child when it is not an array, and the   *)
(* child node with the array at `a` when it is.                            *)
C9_SinglePropertyCollapse ==
    \A k \in 1..Len(stack) :
        LET f == stack[k]
            flag == GetKey(f.node, "singleProperty")
        IN  /\ f.phase = "children" =>
                /\ flag = Bool(/\ Len(f.propertyList) = 1
                               /\ f.propertiesEnd = f.endOffset)
                /\ flag = Bool(TRUE) => f.records = 0 /\ f.merged = << >>
            /\ f.merged # << >> =>
                LET c == f.merged[Len(f.merged)]
                    value == FirstProperty(c)
                    held == GetKey(f.node, PropertyKey(GetKey(c, "name")))
                IN  GetKey(c, "singleProperty") = Bool(TRUE) =>
                        /\ Len(GetKey(c, "propertyList").l) = 1
                        /\ IF value.k = "array"
                           THEN held = Obj(PutKey(c, "a", value))
                           ELSE held = value

(* A record has merged two collapsed children, a number and an array. *)
C9_NumberAndArrayCollapsed ==
    \E k \in 1..Len(stack) :
        LET f == stack[k]
        IN  /\ Len(f.merged) = 2
            /\ GetKey(f.merged[1], "singleProperty") = Bool(TRUE)
            /\ GetKey(f.merged[2], "singleProperty") = Bool(TRUE)
            /\ GetKey(f.merged[1], "name") = Str("Geometry")
            /\ GetKey(f.merged[2], "name") = Str("Objects")
            /\ GetKey(f.node, "Geometry") = Num(1)
            /\ GetProperty(GetKey(f.node, "Objects"), "a") = Arr(<<7>>)

(* C10: once a type tag outside the supported ones has been read, parse()  *)
(* has raised Error, the cursor is still right after the tag and nothing   *)
(* has been returned.                                                      *)
C10_UnsupportedTagAborts ==
    unsupported.seen =>
        /\ lpc = "thrown"
        /\ error = "Error"
        /\ pos = unsupported.offset
        /\ result = "none"

(* The second property of a nested record bears an unsupported tag. *)
C10_BadTagAfterProperty ==
    /\ unsupported.seen
    /\ Len(stack) = 2
    /\ Len(Top.propertyList) = 1
    /\ Top.numProperties = 2

(* The end-of-content test as the format states it. *)
EndOfContentAt(o) ==
    IF size % 16 = 0
    THEN (o + 176) - ((o + 176) % 16) >= size
    ELSE o + 176 >= size

(* C11: while parse() is between two top-level records, it reads a record  *)
(* at the cursor exactly when end-of-content is false there, and leaves    *)
(* its loop without moving the cursor when it is true; after parse() has   *)
(* ended the cursor does not move.                                         *)
C11_ReadsUntilEndOfContent ==
    [][/\ (lpc = "parsing" /\ stack = << >>) =>
            IF EndOfContentAt(pos)
            THEN pos' = pos /\ stack' = << >> /\ lpc' \in {"returned", "thrown"}
            ELSE pos' > pos /\ lpc' = "parsing"
       /\ lpc \in {"returned", "thrown"} => pos' = pos /\ stack' = stack]_vars

(* parse() has ended on a buffer of a multiple of 16 bytes after reading   *)
(* top-level records, the footer of 176 bytes still ahead of the cursor.   *)
C11_EndedBeforeFooter ==
    /\ ContentEnded
    /\ size % 16 = 0
    /\ pos > HeaderSize
    /\ pos + 176 >= size
    /\ pos < size

(* C12: the cursor of a stream lies within its buffer. *)
C12_CursorWithinBuffer == 0 <= pos /\ pos <= size

(* C13: the decode of an array property whose encoding is not 0, begun at  *)
(* offset o, leaves the cursor at o + 1 + 12 + compressedLength, and when  *)
(* it returns, it returns the first arrayLength elements of the inflated   *)
(* buffer; the next property of the record is decoded from that offset,    *)
(* and so is whatever the loader reads next.                               *)
C13_CompressedArrayAdvance ==
    \A k \in 1..Len(stack) :
        LET f == stack[k]
        IN  \A j \in 1..Len(f.decoded) :
                LET call == f.decoded[j]
                    c == call.property
                    after == call.at + 1 + 12 + c.compressedLength
                IN  (c.tag \in ArrayTags /\ c.encoding # 0) =>
                        /\ call.decoded.offset = after
                        /\ call.decoded.err = "" =>
                              /\ Len(c.inflated) >= c.arrayLength
                              /\ call.decoded.value =
                                    Arr([e \in 1..c.arrayLength |-> c.inflated[e]])
                        /\ j < Len(f.decoded) => f.decoded[j + 1].at = after
                        /\ (j = Len(f.decoded) /\ k = Len(stack)
                            /\ f.phase = "properties") => pos = after

(* A record has decoded two compressed arrays one after the other, the     *)
(* first of one element from an inflated buffer of two, the second from a  *)
(* span of another length.                                                 *)
C13_TwoCompressedArrays ==
    /\ stack # << >>
    /\ Len(Top.decoded) = 2
    /\ Top.decoded[1].property = CompressedArray("i", 1, 1, 9, TRUE, <<7, 8>>)
    /\ Top.decoded[2].property = CompressedArray("i", 2, 2, 11, TRUE, <<7, 8>>)
    /\ Top.propertyList = <<Arr(<<7>>), Arr(<<7, 8>>)>>
    /\ pos = Top.decoded[1].at + 13 + 9 + 13 + 11

(* C14 as stated: for a node with Vertices and no PolygonVertexIndex the   *)
(* record returned has no index and the Vertices as its positions.         *)
C14_VerticesPassedThrough ==
    (/\ gpc = "returned"
     /\ genGeometry # << >>
     /\ "Vertices" \in geoNode
     /\ "PolygonVertexIndex" \notin geoNode)
    => /\ genGeometry[1].indices = << >>
       /\ genGeometry[1].positions = geoInfo.vertexPositions
       /\ genGeometry[1].positions # << >>

(* C14: for a node with Vertices and no PolygonVertexIndex the record      *)
(* returned has no index, no position and no normal, UV or colour.         *)
C14_EmptyGeometry ==
    (/\ gpc = "returned"
     /\ genGeometry # << >>
     /\ "Vertices" \in geoNode
     /\ "PolygonVertexIndex" \notin geoNode)
    => /\ genGeometry[1].indices = << >>
       /\ genGeometry[1].positions = << >>
       /\ genGeometry[1].normals = << >>
       /\ genGeometry[1].uvs = << >>
       /\ genGeometry[1].colors = << >>

(* A node with Vertices and attribute blocks and no PolygonVertexIndex has *)
(* been reconstructed.                                                     *)
C14_ReturnedWithoutIndex ==
    /\ gpc = "returned"
    /\ genGeometry # << >>
    /\ geoNode = {"Vertices", "LayerElementNormal", "LayerElementUV",
                  "LayerElementColor"}
    /\ geoInfo.vertexPositions # << >>

(* A step decodes the header of a record: an activation of _parseNode     *)
(* starts, or the innermost one has one more null record.                  *)
RecordDecoded ==
    \/ Len(stack') > Len(stack)
    \/ /\ stack # << >>
       /\ Len(stack') = Len(stack)
       /\ stack'[Len(stack)].records > stack[Len(stack)].records

(* C17: the decode of a record moves the cursor forward, and parse() ends, *)
(* by returning or by raising.                                             *)
C17_ParseTerminates ==
    /\ [][RecordDecoded => pos' > pos]_vars
    /\ <>(lpc \in {"returned", "thrown"})

(* parse() has returned after the child loop of a record ran to an         *)
(* endOffset 93 bytes after its header.                                    *)
C17_ReturnedAfterChildLoop ==
    /\ lpc = "returned"
    /\ profile = "siblings"
    /\ pos > HeaderSize + 93

(***************************************************************************)
(* FBXGeometry.parse: properties.                                          *)
(***************************************************************************)

(* C15: no node has two records in the output. *)
C15_OneRecordPerGeometry ==
    \A i, j \in 1..Len(geometries) : geometries[i] = geometries[j] => i = j

(* The nodes in discovery order from node n: n, then for each tuple in     *)
(* list order whose child id is a key of n holding a node named            *)
(* "Geometry", the nodes discovered from that node.                        *)
RECURSIVE DiscoveredFrom(_), DiscoveredThrough(_, _)
DiscoveredFrom(n) == <<n>> \o DiscoveredThrough(n, 1)

DiscoveredThrough(n, t) ==
    IF t > Len(connections) THEN << >>
    ELSE LET value == ChildOf(n, NumberToString(connections[t][1]))
         IN  (IF value # Undef /\ NameOf(value) = "Geometry"
              THEN DiscoveredFrom(value) ELSE << >>)
             \o DiscoveredThrough(n, t + 1)

(* C16: the records are pushed in discovery order, the root first, and the *)
(* output returned is the whole of it.                                     *)
C16_DiscoveryOrder ==
    /\ dpc = "running" =>
          /\ Len(geometries) <= Len(DiscoveredFrom(0))
          /\ geometries = SubSeq(DiscoveredFrom(0), 1, Len(geometries))
          /\ geometries[1] = 0
    /\ dpc = "returned" => geometries = DiscoveredFrom(0)

(* The tuples 1, 2, 3 on the first tree: node 3, found under node 1, has   *)
(* its record before node 2, found by the second tuple.                    *)
C16_DepthFirstOutput ==
    /\ dpc = "returned"
    /\ connections = <<<<1, 0>>, <<2, 0>>, <<3, 1>>>>
    /\ geometries = <<0, 1, 3, 2>>

WidthOfRead(r) ==
    CASE r.op \in FixedReads -> WidthOf(r.op)
      [] r.op \in {"readUint64", "readInt64"} -> 8
      [] r.op \in ArrayReads -> r.count * WidthOf(ElementOf(r.op))
      [] r.op = "readInt64Array" -> r.count * 8
      [] r.op \in {"readString", "readArrayBuffer"} -> r.count

(* The little-endian value stored at the offset of the read. *)
ValueOfRead(r) ==
    CASE r.op \in FixedReads -> Stored(r.op, r.at)
      [] r.op = "readUint64" -> r.words[2] * WordBase + r.words[1]
      [] r.op = "readInt64" -> SignedValue(r.words[1], r.words[2])
      [] r.op \in ArrayReads ->
            [k \in 1..r.count |->
                Stored(ElementOf(r.op), r.at + WidthOf(ElementOf(r.op)) * (k - 1))]
      [] r.op = "readInt64Array" ->
            [k \in 1..r.count |-> SignedValue(r.words[k][1], r.words[k][2])]
      [] r.op \in {"readString", "readArrayBuffer"} ->
            [k \in 1..r.count |-> Stored("byte", r.at + k - 1)]

InRange(r) == r.op # "" /\ r.at + WidthOfRead(r) <= streamSize

(* C23, as claimed: every in-range read returns the little-endian value    *)
(* stored at the offset it started from and moves the cursor by exactly    *)
(* its width, and the size of the buffer never changes.                    *)
C23_ReadsExact ==
    /\ InRange(lastRead) =>
          /\ lastRead.error = ""
          /\ streamPos = lastRead.at + WidthOfRead(lastRead)
          /\ lastRead.value = ValueOfRead(lastRead)

(***************************************************************************)
(* QuixelListener.importAssets: properties.                                *)
(***************************************************************************)

(* C18: a queue that holds assets is emptied in the end, also when the     *)
(* parse of a LOD file throws; a call that is in its wait loop leaves it   *)
(* in the end, and a call that handles its assets completes.               *)
C18_FailedParseDoesNotStopBatch ==
    /\ (Len(queue) # 0) ~> (Len(queue) = 0)
    /\ \A i \in Imports :
          /\ (imports[i].pc \in {"waiting", "sleeping"})
                ~> (imports[i].pc \notin {"waiting", "sleeping"})
          /\ (imports[i].pc = "handling") ~> (imports[i].pc = "done")

(* The number of times asset a was notified as imported. *)
RECURSIVE Occurrences(_, _)
Occurrences(a, q) ==
    IF q = << >> THEN 0
    ELSE (IF Head(q) = a THEN 1 ELSE 0) + Occurrences(a, Tail(q))

RECURSIVE NotifiedBy(_, _)
NotifiedBy(a, i) ==
    IF i = 0 THEN 0 ELSE Occurrences(a, imports[i].notified) + NotifiedBy(a, i - 1)

Notifications(a) == NotifiedBy(a, MaxImports)

(* C28, as claimed: the queue never holds the exports of two calls, no     *)
(* asset is notified twice, and every call that reaches its wait loop      *)
(* completes with each of its assets notified once and, when they are      *)
(* added to the scene, each of their LOD files handled.                    *)
C28_EachAssetHandledOnce ==
    /\ [](\A j, k \in 1..Len(queue) : queue[j][1] = queue[k][1])
    /\ [](\A a \in Assets : Notifications(a) <= 1)
    /\ \A i \in Imports :
          (imports[i].pc = "waiting") ~>
             (/\ imports[i].pc = "done"
              /\ \A k \in 1..Len(imports[i].exports) :
                    /\ Notifications(imports[i].exports[k]) = 1
                    /\ imports[i].addToScene =>
                          \A l \in LodFiles : lods[imports[i].exports[k]][l] # "pending")

(***************************************************************************)
(* QuixelServer: properties.                                               *)
(***************************************************************************)

(* The chunks of a socket, one after the other. *)
RECURSIVE Concatenation(_)
Concatenation(chunks) ==
    IF chunks = << >> THEN << >> ELSE Head(chunks) \o Concatenation(Tail(chunks))

(* C29, as claimed: the text parsed at the end of a connection is the      *)
(* concatenation of the chunks received on that connection, a connection   *)
(* that ended after it received data had its text parsed, and the receive  *)
(* buffer is null after every end.                                         *)
C29_ConnectionsNotMixed ==
    /\ [](\A k \in 1..Len(parses) :
            parses[k].text = Concatenation(sockets[parses[k].socket].received))
    /\ [](\A c \in Sockets :
            (sockets[c].state = "ended" /\ sockets[c].received # << >>) =>
               \E k \in 1..Len(parses) : parses[k].socket = c)
    /\ [][(\E c \in Sockets : sockets[c].state = "open" /\ sockets'[c].state = "ended")
             => serverBuffer' = << >>]_vars

(***************************************************************************)
(* Geometry Reconstructor: short faces and unterminated runs.              *)
(***************************************************************************)

EmptyFaceBuffers ==
    /\ faceLength = 0
    /\ faceUVs = << >>
    /\ faceColors = << >>
    /\ faceNormals = << >>
    /\ facePositionIndexes = << >>

(* C30: the output buffers change only at a terminator that closes a face  *)
(* of three corners or more; a terminator that closes a face of one or two *)
(* corners leaves them as they are, counts the polygon and empties the     *)
(* per-face buffers; the entries of an unterminated trailing run leave     *)
(* them as they are, and so does the return, which yields the record.      *)
C30_OnlyTerminatedPolygons ==
    [][/\ buffers' # buffers =>
             /\ Len(vertexIndices') = Len(vertexIndices) + 1
             /\ vertexIndices'[Len(vertexIndices')] < 0
             /\ faceLength + 1 >= 3
       /\ (/\ Len(vertexIndices') = Len(vertexIndices) + 1
           /\ vertexIndices'[Len(vertexIndices')] < 0) =>
             /\ polygonIndex' = polygonIndex + 1
             /\ EmptyFaceBuffers'
       /\ gpc' # gpc =>
             /\ gpc' = "returned"
             /\ genGeometry' = <<[uvs |-> buffers.uvs, indices |-> buffers.index,
                                  colors |-> buffers.colors,
                                  normals |-> buffers.normal,
                                  positions |-> buffers.vertex]>>]_vars

(* C30 witness: a face of two corners, then three corners that no          *)
(* terminator follows; the record returned is empty.                       *)
C30_ShortFaceAndOpenRun ==
    /\ vertexIndices = <<1, 0 - 1, 0, 1, 3>>
    /\ polygonIndex = 1
    /\ faceLength = 3
    /\ gpc = "returned"
    /\ genGeometry # << >>
    /\ genGeometry[1].indices = << >>
    /\ genGeometry[1].positions = << >>

====
